---------------------------- MODULE Spec2Model ----------------------------
(***************************************************************************)
(* PowerShell AST Inspector: the session runner (PowerShellRunner), and    *)
(* the analyzer of the extension: the tree builder, the node locator and   *)
(* analyzeContent.                                                         *)
(*                                                                         *)
(* The runner owns one child process, writes each command followed by a    *)
(* sentinel-emitting instruction to its stdin, and frames the responses    *)
(* found on stdout.  Strings are sequences of one-character strings.  The  *)
(* child process is the environment: it answers the commands written to    *)
(* its stdin in order, and the operating system cuts its output into       *)
(* chunks at arbitrary places.                                             *)
(***************************************************************************)
EXTENDS Integers, Sequences, FiniteSets, TLC

(* ------------------------------ bounds --------------------------------- *)

\* Number of invoke calls in a run.
MaxInvokes == 2
\* Number of child processes (handles) a run may create, the first included.
MaxProcs == 2
\* Number of stderr chunks in a run.
MaxStderrChunks == 1
\* Number of process 'error' events in a run.
MaxErrorEvents == 1
\* Number of failing spawns in a run.
MaxSpawnFail == 1
\* Number of throwing stdin writes in a run.
MaxWriteThrows == 1
\* Number of invoke calls in a run whose only fault is a process exit.
MaxCrashInvokes == 3
\* Length of the node lists given to the tree builder.
MaxNodes == 3
\* Hash codes are 1..MaxHash.
MaxHash == 4
\* Length of the node lists inside the parser's documents.
MaxDocNodes == 2
\* Number of nodes in the locator's index.
MaxIndex == 3
\* Lines are 1..MaxLine, columns 1..MaxColumn, text lengths 1..MaxTextLength.
MaxLine == 2
MaxColumn == 2
MaxTextLength == 3
\* the longest text of a script node and the longest property value
MaxStringLength == 250
\* analyses started in a run of the view
MaxAnalyses == 2
\* the hash codes and the length of the node lists the parser prints for it
MaxViewHash == 2
MaxViewNodes == 2

(* ------------------------------ strings -------------------------------- *)

NL == "\n"

\* The characters String.prototype.trim removes (those that occur here).
IsWhitespace(c) == c \in {" ", NL}

RECURSIVE TrimStart(_)
TrimStart(s) ==
    IF s # <<>> /\ IsWhitespace(Head(s)) THEN TrimStart(Tail(s)) ELSE s

RECURSIVE TrimEnd(_)
TrimEnd(s) ==
    IF s # <<>> /\ IsWhitespace(s[Len(s)])
    THEN TrimEnd(SubSeq(s, 1, Len(s) - 1))
    ELSE s

\* String.prototype.trim
Trim(s) == TrimEnd(TrimStart(s))

\* t occurs in s at position i
OccursAt(s, t, i) ==
    /\ i >= 1
    /\ i + Len(t) - 1 <= Len(s)
    /\ \A k \in 1..Len(t) : s[i + k - 1] = t[k]

\* String.prototype.indexOf, 1-based; 0 when t does not occur in s
IndexOf(s, t) ==
    IF \E i \in 1..Len(s) : OccursAt(s, t, i)
    THEN CHOOSE i \in 1..Len(s) :
            OccursAt(s, t, i) /\ \A j \in 1..(i - 1) : ~OccursAt(s, t, j)
    ELSE 0

\* String.prototype.includes
Includes(s, t) == IndexOf(s, t) # 0

\* String.prototype.split with a non-empty separator: the pieces between the
\* occurrences of t, found left to right without overlap.
RECURSIVE Split(_, _)
Split(s, t) ==
    LET i == IndexOf(s, t) IN
    IF i = 0
    THEN <<s>>
    ELSE <<SubSeq(s, 1, i - 1)>> \o Split(SubSeq(s, i + Len(t), Len(s)), t)

\* The delimiter '__END_OF_COMMAND__', shortened to two characters.
Sentinel == <<"_", "E">>

(* --------------------------- the child process ------------------------- *)

\* The commands of a run.
Commands == {1, 2}

\* What the interpreter prints for a command, before the sentinel line.
CommandOutput(c) == IF c = 1 THEN <<"a">> ELSE <<"b">>

\* What the interpreter prints for `${command}; Write-Output "__END_OF_COMMAND__"`.
Response(c) == CommandOutput(c) \o Sentinel \o <<NL>>

\* The contents of stderr chunks: a diagnostic, or white space only.
StderrChunks == {<<"e">>, <<NL>>}

Procs == 1..MaxProcs

(* ------------------------------- state --------------------------------- *)

VARIABLES
    process,           \* this.process: 0 is null, otherwise the child's number
    isDisposed,        \* this.isDisposed
    pendingCallbacks,  \* this.pendingCallbacks: the futures' numbers, oldest first
    currentData,       \* this.currentData
    currentError,      \* this.currentError
    nProcs,            \* children created so far by cp.spawn
    spawned,           \* spawned[p]: p got a pid and carries the handlers
    alive,             \* alive[p]: p runs (has not emitted 'exit')
    pipe,              \* pipe[p]: what p prints for the commands written to its
                       \* stdin, as far as not yet delivered as stdout 'data'
    fut,               \* fut[f]: the future returned by the f-th invoke call
    settledOrder,      \* the futures in the order they were settled
    recv,              \* recv[p]: all stdout delivered from p so far
    cut,               \* a chunk boundary has fallen inside a sentinel
    heard,             \* the stdout delivered, from any child, since the last
                       \* invoke that pushed its callbacks
    nStderr,           \* stderr chunks so far
    nErrEvents,        \* 'error' events so far
    nSpawnFail,        \* failed spawns so far
    nWriteThrows,      \* throwing writes so far
    pc,                \* where the analyzer stands
    flatData,          \* the argument of buildTreeFromFlatData
    mappedData,        \* the forest buildTreeFromFlatData returned
    collected,         \* the nodes of that forest, as a pre-order walk finds them
    nodeMap,           \* AstState.nodeMap: its values in iteration order
    selection,         \* the editor's active position (0-based line, character)
    foundNode,         \* the locator's foundNode: a place in nodeMap, 0 is null
    ps,                \* what the parser process of this analysis does
    analysis,          \* how analyzeContent ended
    astNode,           \* the script node AstParse.ps1 serializes: its text
                       \* and the value of a property of it
    isAnalyzing,       \* AstState._isAnalyzing
    astData,           \* AstState._astData: the forest shown
    currentFilePath,   \* AstState._currentFilePath
    currentNode,       \* AstState._currentNode
    observed,          \* what the last selection-changed notification
                       \* delivered, and the forest and index at that moment
    analyzingEvents,   \* the analyzing-changed notifications fired so far
    analyses,          \* the analyses started so far: file and position
    lastMessage,       \* the last message a command has shown
    returned,          \* the nodes the last query has returned, and whether
                       \* it was asked during an analysis not yet installed
    nodesByLevel,      \* expandAll's nodesByLevel: a Map from level to nodes
    revealed           \* the nodes expandAll has revealed, in order

viewVars == <<isAnalyzing, astData, currentFilePath, currentNode, observed,
              analyzingEvents, analyses, lastMessage, returned,
              nodesByLevel, revealed>>

analyzerVars == <<pc, flatData, mappedData, collected, nodeMap, selection,
                  foundNode, ps, analysis, astNode, viewVars>>

vars == <<process, isDisposed, pendingCallbacks, currentData, currentError,
          nProcs, spawned, alive, pipe, fut, settledOrder, recv, cut, heard,
          nStderr, nErrEvents, nSpawnFail, nWriteThrows, analyzerVars>>

sessionVars == <<process, isDisposed, pendingCallbacks, currentData, currentError,
                 nProcs, spawned, alive, pipe, fut, settledOrder, recv, cut, heard,
                 nStderr, nErrEvents, nSpawnFail, nWriteThrows>>

runnerVars == <<process, isDisposed, pendingCallbacks, currentData, currentError>>
procVars == <<nProcs, spawned, alive, pipe>>
countVars == <<nStderr, nErrEvents, nSpawnFail, nWriteThrows>>

(* -------------------------- the analyzer's data ------------------------ *)

\* null; the hash codes of a run are positive
Null == 0

\* A parsed JSON array, and Array.isArray
JArray(items) == [json |-> "array", items |-> items]
IsArray(v) == v.json = "array"

\* What AstParse.ps1 prints when it has parsed the script
SuccessDocument(nodes, errors) ==
    [json |-> "object", nodes |-> JArray(nodes), errors |-> errors]

\* One entry of the parser's node list (AstParse.ps1's $nodeData)
FlatAstNode(h, p, t, sl, sc, el, ec, len) ==
    [id |-> h, hashCode |-> h, parentHashCode |-> p, type |-> t,
     text |-> <<t>>, textLength |-> len, extentString |-> <<sl, sc, el, ec>>,
     StartLineNumber |-> sl, StartColumnNumber |-> sc,
     EndLineNumber |-> el, EndColumnNumber |-> ec,
     properties |-> <<>>]

\* A forest as the builder returns it: the root nodes, and the tree nodes by
\* hash code; a node's children and the roots refer to nodes by hash code.
\* The empty array has no roots.
EmptyForest == [rootNodes |-> <<>>, node |-> <<>>]

\* No error (nothing thrown, nothing shown)
NoMessage == [msg |-> ""]

\* No parser process has run: no exit code but 0, no output
NoRun == [error |-> FALSE, code |-> 0, stdout |-> <<>>]

\* analyzeContent has not been called
NoAnalysis ==
    [outcome |-> "none", value |-> EmptyForest, shown |-> NoMessage,
     thrown |-> NoMessage]

\* null as a string: a script node without text, a property without value
NullString == [null |-> TRUE, chars |-> <<>>]

\* null as a node; the analyses of a run are numbered from 1
NoNode == [of |-> 0, hashCode |-> Null]

\* null as a file path
NoFile == ""

\* AstState after getInstance, and no command run yet
ViewIdle ==
    /\ astNode = [text |-> NullString, value |-> NullString]
    /\ isAnalyzing = FALSE
    /\ astData = EmptyForest
    /\ currentFilePath = NoFile
    /\ currentNode = NoNode
    /\ observed = [node |-> NoNode, astData |-> EmptyForest, nodeMap |-> <<>>]
    /\ analyzingEvents = <<>>
    /\ analyses = <<>>
    /\ lastMessage = ""
    /\ returned = [during |-> FALSE, nodes |-> <<>>]
    /\ nodesByLevel = [keys |-> <<>>, val |-> <<>>]
    /\ revealed = <<>>

\* The analyzer before anything has been asked of it
AnalyzerIdle ==
    /\ ViewIdle
    /\ pc = "idle"
    /\ flatData = JArray(<<>>)
    /\ mappedData = EmptyForest
    /\ collected = <<>>
    /\ nodeMap = <<>>
    /\ selection = [line |-> 0, character |-> 0]
    /\ foundNode = 0
    /\ ps = NoRun
    /\ analysis = NoAnalysis

(* ------------------------------ futures -------------------------------- *)

\* The future of invoke(c): st is pending, resolved or rejected; val the text
\* it resolved with (or the stderr text it was rejected with); why the cause
\* of a rejection; proc the child its command was written to (0: none); enq
\* whether its callbacks were pushed on pendingCallbacks; at the number of
\* stdout characters already delivered from proc when invoke was called;
\* ahead the number of callbacks that were pending when invoke was called.
NewFuture(c, p, e, n, k) ==
    [st |-> "pending", why |-> "", val |-> <<>>, cmd |-> c, proc |-> p,
     enq |-> e, at |-> n, ahead |-> k]

Resolved(v) == [st |-> "resolved", why |-> "", val |-> v]
Rejected(w, v) == [st |-> "rejected", why |-> w, val |-> v]

\* handler.resolve / handler.reject on future f of the table fs
Settled(fs, f, o) ==
    [fs EXCEPT ![f].st = o.st, ![f].why = o.why, ![f].val = o.val]

\* A queue served from its newest end (Array.prototype.pop)
ShiftNewest(q) ==
    IF q = <<>>
    THEN [handler |-> 0, rest |-> <<>>]
    ELSE [handler |-> q[Len(q)], rest |-> SubSeq(q, 1, Len(q) - 1)]

\* Array.prototype.shift: the removed element (0: undefined) and what is left
Shift(q) ==
    IF q = <<>>
    THEN [handler |-> 0, rest |-> <<>>]
    ELSE [handler |-> Head(q), rest |-> Tail(q)]

\* The runner after construction
RunnerIdle ==
    /\ process = 1
    /\ isDisposed = FALSE
    /\ pendingCallbacks = <<>>
    /\ currentData = <<>>
    /\ currentError = <<>>
    /\ nProcs = 1
    /\ spawned = [p \in Procs |-> p = 1]
    /\ alive = [p \in Procs |-> p = 1]
    /\ pipe = [p \in Procs |-> <<>>]
    /\ fut = <<>>
    /\ settledOrder = <<>>
    /\ recv = [p \in Procs |-> <<>>]
    /\ heard = <<>>
    /\ cut = FALSE
    /\ nStderr = 0
    /\ nErrEvents = 0
    /\ nSpawnFail = 0
    /\ nWriteThrows = 0

Init == RunnerIdle /\ AnalyzerIdle

(* ------------------------ settling the oldest request ------------------ *)

\* A completion that fails on any stderr text, whatever stdout holds
ResolveOutcomeStderrFatal(data, err) ==
    IF err # <<>> /\ Len(Trim(err)) > 0
    THEN Rejected("stderr", err)
    ELSE Resolved(Trim(data))

\* resolveCurrentCommand's choice between resolve and reject, on the buffers
ResolveOutcome(data, err) ==
    IF err # <<>> /\ Len(Trim(err)) > 0
    THEN IF Trim(data) = <<>>
         THEN Rejected("stderr", err)
         ELSE Resolved(Trim(data))
    ELSE Resolved(Trim(data))

\* A shift that settles nothing
ShiftAndDrop(q, fs, ord, o) ==
    [q |-> Shift(q).rest, fs |-> fs, ord |-> ord]

\* The queue q, the futures fs and the settlement order ord after the oldest
\* handler, if there is one, has been shifted off q and settled with o.
ShiftAndSettle(q, fs, ord, o) ==
    LET h == Shift(q) IN
    [q   |-> h.rest,
     fs  |-> IF h.handler # 0 THEN Settled(fs, h.handler, o) ELSE fs,
     ord |-> IF h.handler # 0 THEN Append(ord, h.handler) ELSE ord]

\* resolveCurrentCommand, with this.currentData = data, this.currentError = err
ResolveCurrentCommand(q, fs, ord, data, err) ==
    ShiftAndSettle(q, fs, ord, ResolveOutcome(data, err))

\* A rejection of every pending handler instead of the oldest one
RejectAllCommands(q, fs, ord, why) ==
    [q   |-> <<>>,
     fs  |-> [f \in DOMAIN fs |->
                IF \E i \in 1..Len(q) : q[i] = f
                THEN [fs[f] EXCEPT !.st = "rejected", !.why = why]
                ELSE fs[f]],
     ord |-> ord \o q]

\* rejectCurrentCommand(error), why naming the error
RejectCurrentCommand(q, fs, ord, why) ==
    ShiftAndSettle(q, fs, ord, Rejected(why, <<>>))

(* -------------------------------- invoke ------------------------------- *)

\* A restart on every invoke of a runner that is not disposed
NeedsRestartAlways(disposed, handle) == ~disposed

\* invoke starts a process: the runner is not disposed and holds no handle
NeedsRestart(disposed, handle) == ~disposed /\ handle = 0

\* invoke(c) on a disposed runner: the async function throws, so the future
\* it returns is rejected at once; nothing is pushed, nothing is written.
InvokeDisposed(c) ==
    /\ isDisposed
    /\ fut' = Append(fut, [NewFuture(c, 0, FALSE, 0, Len(pendingCallbacks)) EXCEPT
                               !.st = "rejected", !.why = "disposed"])
    /\ settledOrder' = Append(settledOrder, Len(fut) + 1)
    /\ UNCHANGED <<runnerVars, procVars, recv, cut, heard, countVars,
                   analyzerVars>>

\* invoke(c) whose restart fails: cp.spawn returns a child without a pid,
\* which startProcess has already stored in this.process when it throws,
\* before any handler is attached.
InvokeSpawnFails(c) ==
    /\ NeedsRestart(isDisposed, process)
    /\ nProcs < MaxProcs
    /\ nSpawnFail < MaxSpawnFail
    /\ process' = nProcs + 1
    /\ nProcs' = nProcs + 1
    /\ nSpawnFail' = nSpawnFail + 1
    /\ fut' = Append(fut, [NewFuture(c, 0, FALSE, 0, Len(pendingCallbacks)) EXCEPT
                               !.st = "rejected", !.why = "spawn"])
    /\ settledOrder' = Append(settledOrder, Len(fut) + 1)
    /\ UNCHANGED <<isDisposed, pendingCallbacks, currentData, currentError,
                   spawned, alive, pipe, recv, cut, heard,
                   nStderr, nErrEvents, nWriteThrows,
                   analyzerVars>>

\* An invoke that does not empty the stdout buffer
InvokeKeepsData(c, throws) ==
    /\ ~isDisposed
    /\ NeedsRestart(isDisposed, process) => nProcs < MaxProcs
    /\ throws => nWriteThrows < MaxWriteThrows
    /\ LET restart == NeedsRestart(isDisposed, process)
           p == IF restart THEN nProcs + 1 ELSE process
           f == Len(fut) + 1
           q == Append(pendingCallbacks, f)
           fs == Append(fut, NewFuture(c, IF throws THEN 0 ELSE p, TRUE,
                                       Len(recv[p]), Len(pendingCallbacks)))
           r == IF throws
                THEN RejectCurrentCommand(q, fs, settledOrder, "write")
                ELSE [q |-> q, fs |-> fs, ord |-> settledOrder]
       IN
       /\ process' = p
       /\ nProcs' = IF restart THEN nProcs + 1 ELSE nProcs
       /\ spawned' = IF restart THEN [spawned EXCEPT ![p] = TRUE] ELSE spawned
       /\ alive' = IF restart THEN [alive EXCEPT ![p] = TRUE] ELSE alive
       /\ pendingCallbacks' = r.q
       /\ fut' = r.fs
       /\ settledOrder' = r.ord
       /\ currentData' = currentData
       /\ currentError' = <<>>
       /\ heard' = <<>>
       /\ pipe' = IF throws THEN pipe
                  ELSE IF restart \/ alive[p]
                  THEN [pipe EXCEPT ![p] = @ \o Response(c)]
                  ELSE pipe
       /\ nWriteThrows' = IF throws THEN nWriteThrows + 1 ELSE nWriteThrows
    /\ UNCHANGED <<isDisposed, recv, cut, nStderr, nErrEvents, nSpawnFail,
                   analyzerVars>>

\* invoke(c) that reaches the promise executor: after a restart where one is
\* needed, the callbacks are pushed, both buffers reset and the command is
\* written to stdin; throws says whether that write throws, in which case the
\* catch block shifts a handler off the queue and rejects it.  A child that
\* runs answers every command written to it: its response joins pipe[p].  The
\* handle of a failed spawn takes the write and answers nothing.
InvokeWrites(c, throws) ==
    /\ ~isDisposed
    /\ NeedsRestart(isDisposed, process) => nProcs < MaxProcs
    /\ throws => nWriteThrows < MaxWriteThrows
    /\ LET restart == NeedsRestart(isDisposed, process)
           p == IF restart THEN nProcs + 1 ELSE process
           f == Len(fut) + 1
           q == Append(pendingCallbacks, f)
           fs == Append(fut, NewFuture(c, IF throws THEN 0 ELSE p, TRUE,
                                       Len(recv[p]), Len(pendingCallbacks)))
           r == IF throws
                THEN RejectCurrentCommand(q, fs, settledOrder, "write")
                ELSE [q |-> q, fs |-> fs, ord |-> settledOrder]
       IN
       /\ process' = p
       /\ nProcs' = IF restart THEN nProcs + 1 ELSE nProcs
       /\ spawned' = IF restart THEN [spawned EXCEPT ![p] = TRUE] ELSE spawned
       /\ alive' = IF restart THEN [alive EXCEPT ![p] = TRUE] ELSE alive
       /\ pendingCallbacks' = r.q
       /\ fut' = r.fs
       /\ settledOrder' = r.ord
       /\ currentData' = <<>>
       /\ currentError' = <<>>
       /\ heard' = <<>>
       /\ pipe' = IF throws THEN pipe
                  ELSE IF restart \/ alive[p]
                  THEN [pipe EXCEPT ![p] = @ \o Response(c)]
                  ELSE pipe
       /\ nWriteThrows' = IF throws THEN nWriteThrows + 1 ELSE nWriteThrows
    /\ UNCHANGED <<isDisposed, recv, cut, nStderr, nErrEvents, nSpawnFail,
                   analyzerVars>>

Invoke(c) ==
    /\ Len(fut) < MaxInvokes
    /\ \/ InvokeDisposed(c)
       \/ InvokeSpawnFails(c)
       \/ \E throws \in BOOLEAN : InvokeWrites(c, throws)

(* --------------------------- process events ---------------------------- *)

\* The buffer the stdout handler leaves after a chunk that held the
\* delimiter: parts are the pieces of the chunk, data the buffer that the
\* request was completed with.
AfterDelimiter(parts, data) ==
    IF Len(parts) > 1 /\ Len(Trim(parts[2])) > 0 THEN parts[2] ELSE data

\* A cut after chunk, with rest following, falls inside a sentinel
CutsSentinel(chunk, rest) ==
    \E k \in 1..(Len(Sentinel) - 1) :
        /\ k <= Len(chunk)
        /\ SubSeq(chunk, Len(chunk) - k + 1, Len(chunk)) = SubSeq(Sentinel, 1, k)
        /\ Len(Sentinel) - k <= Len(rest)
        /\ SubSeq(rest, 1, Len(Sentinel) - k)
               = SubSeq(Sentinel, k + 1, Len(Sentinel))

\* stdout 'data' of child p: the first n characters of its pending output
StdoutData(p, n) ==
    /\ spawned[p]
    /\ n \in 1..Len(pipe[p])
    /\ LET chunk == SubSeq(pipe[p], 1, n)
           rest == SubSeq(pipe[p], n + 1, Len(pipe[p]))
       IN
       /\ pipe' = [pipe EXCEPT ![p] = rest]
       /\ recv' = [recv EXCEPT ![p] = @ \o chunk]
       /\ heard' = heard \o chunk
       /\ cut' = (cut \/ CutsSentinel(chunk, rest))
       /\ IF Includes(chunk, Sentinel)
          THEN LET parts == Split(chunk, Sentinel)
                   data == currentData \o parts[1]
                   r == ResolveCurrentCommand(pendingCallbacks, fut,
                                              settledOrder, data, currentError)
               IN
               /\ pendingCallbacks' = r.q
               /\ fut' = r.fs
               /\ settledOrder' = r.ord
               /\ currentData' = AfterDelimiter(parts, data)
          ELSE /\ currentData' = currentData \o chunk
               /\ UNCHANGED <<pendingCallbacks, fut, settledOrder>>
    /\ UNCHANGED <<process, isDisposed, currentError, nProcs, spawned, alive,
                   countVars,
                   analyzerVars>>

\* stderr 'data' of child p
StderrData(p, chunk) ==
    /\ spawned[p]
    /\ nStderr < MaxStderrChunks
    /\ nStderr' = nStderr + 1
    /\ currentError' = currentError \o chunk
    /\ UNCHANGED <<process, isDisposed, pendingCallbacks, currentData,
                   procVars, fut, settledOrder, recv, cut, heard,
                   nErrEvents, nSpawnFail, nWriteThrows,
                   analyzerVars>>

\* 'error' of child p
ProcessError(p) ==
    /\ spawned[p]
    /\ alive[p]
    /\ nErrEvents < MaxErrorEvents
    /\ nErrEvents' = nErrEvents + 1
    /\ LET r == RejectCurrentCommand(pendingCallbacks, fut, settledOrder, "error")
       IN /\ pendingCallbacks' = r.q
          /\ fut' = r.fs
          /\ settledOrder' = r.ord
    /\ UNCHANGED <<process, isDisposed, currentData, currentError, procVars,
                   recv, cut, heard, nStderr, nSpawnFail, nWriteThrows,
                   analyzerVars>>

\* 'exit' of child p: it ends by itself or after dispose has killed it.  Of
\* the output it owed, it had written the first k characters, which may
\* still be delivered afterwards; the rest is never written.
ProcessExit(p, k) ==
    /\ spawned[p]
    /\ alive[p]
    /\ k \in 0..Len(pipe[p])
    /\ pipe' = [pipe EXCEPT ![p] = SubSeq(@, 1, k)]
    /\ alive' = [alive EXCEPT ![p] = FALSE]
    /\ process' = 0
    /\ LET r == RejectCurrentCommand(pendingCallbacks, fut, settledOrder, "exit")
       IN /\ pendingCallbacks' = r.q
          /\ fut' = r.fs
          /\ settledOrder' = r.ord
    /\ UNCHANGED <<isDisposed, currentData, currentError, nProcs, spawned,
                   recv, cut, heard, countVars,
                   analyzerVars>>

\* A dispose that marks the runner and forgets to clear the handle
DisposeKeepsHandle ==
    /\ ~isDisposed
    /\ isDisposed' = TRUE
    /\ UNCHANGED <<process, pendingCallbacks, currentData, currentError,
                   procVars, fut, settledOrder, recv, cut, heard, countVars,
                   analyzerVars>>

\* dispose()
Dispose ==
    /\ ~isDisposed
    /\ isDisposed' = TRUE
    /\ process' = 0
    /\ UNCHANGED <<pendingCallbacks, currentData, currentError, procVars,
                   fut, settledOrder, recv, cut, heard, countVars,
                   analyzerVars>>

Next ==
    \/ \E c \in Commands : Invoke(c)
    \/ \E p \in Procs : \E n \in 1..Len(pipe[p]) : StdoutData(p, n)
    \/ \E p \in Procs : \E chunk \in StderrChunks : StderrData(p, chunk)
    \/ \E p \in Procs : ProcessError(p)
    \/ \E p \in Procs : \E k \in 0..Len(pipe[p]) : ProcessExit(p, k)
    \/ Dispose

Spec == Init /\ [][Next]_vars

(* ------------------ runs whose only fault is a process exit ------------ *)

\* invoke(c) whose write succeeds
CrashInvoke(c) ==
    /\ Len(fut) < MaxCrashInvokes
    /\ InvokeWrites(c, FALSE)

\* The process ends and what it had not yet delivered is lost.
CrashExit(p) == ProcessExit(p, 0)

\* No stderr output, no 'error' event, no failing spawn, no throwing write,
\* no dispose, nothing delivered after 'exit'.
CrashNext ==
    \/ \E c \in Commands : CrashInvoke(c)
    \/ \E p \in Procs : \E n \in 1..Len(pipe[p]) : StdoutData(p, n)
    \/ \E p \in Procs : CrashExit(p)

SpecCrash == Init /\ [][CrashNext]_vars

(* --------------------------- the tree builder -------------------------- *)

Hashes == 1..MaxHash

\* The type name of a node: the parentless node of a script is its script
\* block.
TypeOf(p) == IF p = Null THEN "ScriptBlockAst" ELSE "CommandAst"

\* The nodes of the lists given to the builder: any hash codes, duplicates
\* included, any parents: null, a hash code of the list, the node's own, or
\* one of no node.
FlatNodes ==
    {FlatAstNode(h, p, TypeOf(p), 1, 1, 1, 1, 1) :
        h \in Hashes, p \in {Null} \cup Hashes}

\* A tree node that loses the node's type on the way
TreeNodeUntyped(flatNode) ==
    [id |-> flatNode.id, hashCode |-> flatNode.hashCode,
     parentHashCode |-> flatNode.parentHashCode, type |-> "",
     text |-> flatNode.text, extentString |-> flatNode.extentString,
     startLine |-> flatNode.StartLineNumber,
     startColumn |-> flatNode.StartColumnNumber,
     endLine |-> flatNode.EndLineNumber,
     endColumn |-> flatNode.EndColumnNumber,
     textLength |-> flatNode.textLength,
     children |-> <<>>, properties |-> flatNode.properties]

\* The tree node the first pass makes of a flat node
TreeNode(flatNode) ==
    [id |-> flatNode.id, hashCode |-> flatNode.hashCode,
     parentHashCode |-> flatNode.parentHashCode, type |-> flatNode.type,
     text |-> flatNode.text, extentString |-> flatNode.extentString,
     startLine |-> flatNode.StartLineNumber,
     startColumn |-> flatNode.StartColumnNumber,
     endLine |-> flatNode.EndLineNumber,
     endColumn |-> flatNode.EndColumnNumber,
     textLength |-> flatNode.textLength,
     children |-> <<>>, properties |-> flatNode.properties]

\* A Map: its keys in insertion order and the value of each key
EmptyMap == [keys |-> <<>>, val |-> <<>>]

\* Map.prototype.has
MapHas(val, k) == k \in DOMAIN val

\* Map.prototype.set: a key that is present keeps its place and gets the
\* new value
MapSet(m, k, v) ==
    [keys |-> IF MapHas(m.val, k) THEN m.keys ELSE Append(m.keys, k),
     val  |-> (k :> v) @@ m.val]

\* First pass: one tree node per flat node, in the map under its hash code
RECURSIVE FirstPass(_, _)
FirstPass(items, m) ==
    IF items = <<>>
    THEN m
    ELSE FirstPass(Tail(items),
                   MapSet(m, Head(items).hashCode, TreeNode(Head(items))))

\* A linking step that makes no node a child
LinkRootsOnly(s, k) ==
    IF s.val[k].parentHashCode = Null
    THEN [s EXCEPT !.rootNodes = Append(@, k)]
    ELSE s

\* A linking step that makes a root of a node whose parent is not found
LinkOrphansAsRoots(s, k) ==
    LET node == s.val[k] IN
    IF node.parentHashCode = Null \/ ~MapHas(s.val, node.parentHashCode)
    THEN [s EXCEPT !.rootNodes = Append(@, k)]
    ELSE [s EXCEPT !.val[node.parentHashCode].children = Append(@, k)]

\* A linking step that puts a node in front of its siblings and of the roots
\* found before it (Array.prototype.unshift)
LinkInFront(s, k) ==
    LET node == s.val[k] IN
    IF node.parentHashCode = Null
    THEN [s EXCEPT !.rootNodes = <<k>> \o @]
    ELSE IF MapHas(s.val, node.parentHashCode)
         THEN [s EXCEPT !.val[node.parentHashCode].children = <<k>> \o @]
         ELSE s

\* A linking step that pushes a child twice
LinkTwice(s, k) ==
    LET node == s.val[k] IN
    IF node.parentHashCode = Null
    THEN [s EXCEPT !.rootNodes = Append(@, k)]
    ELSE IF MapHas(s.val, node.parentHashCode)
         THEN [s EXCEPT !.val[node.parentHashCode].children =
                            Append(Append(@, k), k)]
         ELSE s

\* Second pass, one iteration: the node under key k becomes a root, a child
\* of the node its parentHashCode names, or nothing
Link(s, k) ==
    LET node == s.val[k] IN
    IF node.parentHashCode = Null
    THEN [s EXCEPT !.rootNodes = Append(@, k)]
    ELSE IF MapHas(s.val, node.parentHashCode)
         THEN [s EXCEPT !.val[node.parentHashCode].children = Append(@, k)]
         ELSE s

\* Second pass: the map's entries in insertion order
RECURSIVE SecondPass(_, _)
SecondPass(keys, s) ==
    IF keys = <<>> THEN s ELSE SecondPass(Tail(keys), Link(s, Head(keys)))

\* buildTreeFromFlatData
BuildTreeFromFlatData(data) ==
    IF ~IsArray(data) \/ Len(data.items) = 0
    THEN EmptyForest
    ELSE LET m == FirstPass(data.items, EmptyMap)
             s == SecondPass(m.keys, [val |-> m.val, rootNodes |-> <<>>])
         IN [rootNodes |-> s.rootNodes, node |-> s.val]

\* The nodes a recursive walk over nodes and their children visits, parents
\* before children (collectNodes of setAstData)
RECURSIVE PreOrder(_, _)
PreOrder(nodes, heap) ==
    IF nodes = <<>>
    THEN <<>>
    ELSE <<Head(nodes)>> \o PreOrder(heap[Head(nodes)].children, heap)
                        \o PreOrder(Tail(nodes), heap)

(* ------------------------------ expand all ----------------------------- *)

\* A push that replaces the bucket
MapPushReplaces(m, k, items) == MapSet(m, k, items)

\* if (!nodesByLevel.has(k)) nodesByLevel.set(k, []);
\* nodesByLevel.get(k).push(...items)
MapPush(m, k, items) ==
    IF MapHas(m.val, k)
    THEN [m EXCEPT !.val[k] = @ \o items]
    ELSE MapSet(m, k, items)

\* childLevels.forEach: the buckets of the children's levels, in the
\* order of childLevels, are pushed on the buckets of m
RECURSIVE MergeLevels(_, _, _)
MergeLevels(m, childLevels, keys) ==
    IF keys = <<>>
    THEN m
    ELSE MergeLevels(MapPush(m, Head(keys), childLevels.val[Head(keys)]),
                     childLevels, Tail(keys))

\* collectNodesByLevel: the loop over nodes, with nodesByLevel = m so far,
\* and the call itself, which starts it with a new Map
RECURSIVE LevelsLoop(_, _, _, _)
RECURSIVE CollectNodesByLevel(_, _, _)
LevelsLoop(nodes, heap, level, m) ==
    IF nodes = <<>>
    THEN m
    ELSE LET m1 == MapPush(m, level, <<Head(nodes)>>)
             m2 == IF Len(heap[Head(nodes)].children) > 0
                   THEN LET childLevels ==
                                CollectNodesByLevel(heap[Head(nodes)].children,
                                                    heap, level + 1)
                        IN MergeLevels(m1, childLevels, childLevels.keys)
                   ELSE m1
         IN LevelsLoop(Tail(nodes), heap, level, m2)

CollectNodesByLevel(nodes, heap, level) ==
    LevelsLoop(nodes, heap, level, EmptyMap)

\* Math.max(...nodesByLevel.keys()); without keys it is -Infinity, below
\* every level, as -1 is
MaxLevel(m) ==
    IF m.keys = <<>>
    THEN -1
    ELSE CHOOSE k \in DOMAIN m.val : \A j \in DOMAIN m.val : j <= k

\* The loops of expandAll from level on: the nodes with children are
\* revealed, level by level, each level in the order of its bucket
RECURSIVE RevealFrom(_, _, _)
RevealFrom(m, heap, level) ==
    IF level > MaxLevel(m)
    THEN <<>>
    ELSE LET bucket == IF MapHas(m.val, level) THEN m.val[level] ELSE <<>>
         IN SelectSeq(bucket, LAMBDA h : Len(heap[h].children) > 0)
                \o RevealFrom(m, heap, level + 1)

BuildInit ==
    /\ RunnerIdle
    /\ ViewIdle
    /\ pc = "input"
    /\ \/ \E n \in 0..MaxNodes : \E items \in [1..n -> FlatNodes] :
             flatData = JArray(items)
       \/ \E n \in 0..1 : \E items \in [1..n -> FlatNodes] :
             flatData = SuccessDocument(items, <<>>)
    /\ mappedData = EmptyForest
    /\ collected = <<>>
    /\ nodeMap = <<>>
    /\ selection = [line |-> 0, character |-> 0]
    /\ foundNode = 0
    /\ ps = NoRun
    /\ analysis = NoAnalysis

\* The builder is applied to the value: a list, or the parser's document
BuildTree ==
    /\ pc = "input"
    /\ pc' = "built"
    /\ mappedData' = BuildTreeFromFlatData(flatData)
    /\ UNCHANGED <<sessionVars, astNode, viewVars, flatData, collected, nodeMap, selection,
                   foundNode, ps, analysis>>

\* The forest is walked from its roots
Flatten ==
    /\ pc = "built"
    /\ pc' = "collected"
    /\ collected' = PreOrder(mappedData.rootNodes, mappedData.node)
    /\ UNCHANGED <<sessionVars, astNode, viewVars, flatData, mappedData, nodeMap, selection,
                   foundNode, ps, analysis>>

\* powershellAst.expandAll on the forest that setAstData has been given:
\* the forest built
ExpandAll ==
    /\ pc = "collected"
    /\ pc' = "expanded"
    /\ nodesByLevel' = CollectNodesByLevel(mappedData.rootNodes,
                                           mappedData.node, 0)
    /\ revealed' = RevealFrom(nodesByLevel', mappedData.node, 0)
    /\ UNCHANGED <<sessionVars, astNode, isAnalyzing, astData, currentFilePath,
                   currentNode, observed, analyzingEvents, analyses,
                   lastMessage, returned, flatData, mappedData, collected,
                   nodeMap, selection, foundNode, ps, analysis>>

BuildNext == BuildTree \/ Flatten \/ ExpandAll

SpecBuild == BuildInit /\ [][BuildNext]_vars

(* ---------------------- the parser script's strings -------------------- *)

\* The cap of TrimString when none is given (the values of properties), and
\* the cap that the script gives for the text of a node
DefaultMaxChars == 200
TextMaxChars == 100

\* What TrimString puts behind a string it has cut
Ellipsis == <<".", ".", ".">>

\* The characters of the strings under test; the string number k of n
\* characters
Alphabet == <<"a", "b", ".">>
StringOf(n, k) ==
    [null |-> FALSE,
     chars |-> [i \in 1..n |-> Alphabet[((i + k) % Len(Alphabet)) + 1]]]

\* [string]::IsNullOrEmpty
IsNullOrEmpty(String) == String.null \/ String.chars = <<>>

\* A TrimString that also cuts a string of exactly MaxChars characters
TrimStringBelowCap(String, MaxChars) ==
    IF IsNullOrEmpty(String)
    THEN <<>>
    ELSE IF Len(String.chars) < MaxChars
         THEN String.chars
         ELSE SubSeq(String.chars, 1, MaxChars) \o Ellipsis

\* [AstProperty]::TrimString($String, $MaxChars)
TrimString(String, MaxChars) ==
    IF IsNullOrEmpty(String)
    THEN <<>>
    ELSE IF Len(String.chars) <= MaxChars
         THEN String.chars
         ELSE SubSeq(String.chars, 1, MaxChars) \o Ellipsis

\* [AstProperty]::TrimString($String)
TrimStringDefault(String) == TrimString(String, DefaultMaxChars)

\* [AstProperty]::new($Name, $Value, $TypeName)
AstProperty(Name, Value, TypeName) ==
    [Name |-> Name, Value |-> TrimStringDefault(Value), TypeName |-> TypeName]

\* $nodeData of the script node: its text cut, its property made
NodeData(node) ==
    [FlatAstNode(1, Null, TypeOf(Null), 1, 1, 1, 1, Len(node.text.chars))
        EXCEPT !.text = TrimString(node.text, TextMaxChars),
               !.properties = <<AstProperty("Name", node.value, "string")>>]

\* A script node with any text and any property value, null included
TrimInit ==
    /\ RunnerIdle
    /\ pc = "script"
    /\ flatData = JArray(<<>>)
    /\ mappedData = EmptyForest
    /\ collected = <<>>
    /\ nodeMap = <<>>
    /\ selection = [line |-> 0, character |-> 0]
    /\ foundNode = 0
    /\ ps = NoRun
    /\ analysis = NoAnalysis
    /\ isAnalyzing = FALSE
    /\ astData = EmptyForest
    /\ currentFilePath = NoFile
    /\ currentNode = NoNode
    /\ observed = [node |-> NoNode, astData |-> EmptyForest, nodeMap |-> <<>>]
    /\ analyzingEvents = <<>>
    /\ analyses = <<>>
    /\ lastMessage = ""
    /\ returned = [during |-> FALSE, nodes |-> <<>>]
    /\ nodesByLevel = [keys |-> <<>>, val |-> <<>>]
    /\ revealed = <<>>
    /\ \E text \in {NullString}
                     \cup {StringOf(n, 0) : n \in 0..MaxStringLength} :
       \E value \in {NullString}
                      \cup {StringOf(n, 1) : n \in 0..MaxStringLength} :
          astNode = [text |-> text, value |-> value]

\* The script serializes the node
SerializeNode ==
    /\ pc = "script"
    /\ pc' = "input"
    /\ flatData' = JArray(<<NodeData(astNode)>>)
    /\ UNCHANGED <<sessionVars, astNode, viewVars, mappedData, collected,
                   nodeMap, selection, foundNode, ps, analysis>>

TrimNext == SerializeNode \/ BuildTree \/ Flatten

SpecTrim == TrimInit /\ [][TrimNext]_vars

(* --------------------------- the node locator -------------------------- *)

Lines == 1..MaxLine
Columns == 1..MaxColumn

\* The extents and text lengths of indexed nodes: a node does not end before
\* it starts.
Extents ==
    {e \in [sl : Lines, sc : Columns, el : Lines, ec : Columns,
            len : 1..MaxTextLength] :
        e.sl < e.el \/ (e.sl = e.el /\ e.sc <= e.ec)}

\* The tree node of hash code h with extent e
IndexNode(h, e) ==
    TreeNode(FlatAstNode(h, Null, TypeOf(Null), e.sl, e.sc, e.el, e.ec, e.len))

\* The values of a nodeMap in iteration order, with the extents e; its
\* keys, the hash codes, differ.
IndexWith(e) == [i \in 1..Len(e) |-> IndexNode(i, e[i])]

\* The editor's positions: lines and characters count from 0.
Selections ==
    [line : 0..(MaxLine - 1), character : 0..(MaxColumn - 1)]

\* A containment test that excludes the end boundary
ContainsEndExclusive(node, line, column) ==
    /\ node.startLine < line
          \/ (node.startLine = line /\ node.startColumn <= column)
    /\ node.endLine > line
          \/ (node.endLine = line /\ node.endColumn > column)

\* The two nested conditions of the scan: node contains (line, column)
Contains(node, line, column) ==
    /\ node.startLine < line
          \/ (node.startLine = line /\ node.startColumn <= column)
    /\ node.endLine > line
          \/ (node.endLine = line /\ node.endColumn >= column)

\* A scan that prefers the longer node
ReplacesLarger(values, i, found) ==
    found = 0 \/ values[i].textLength >= values[found].textLength

\* A scan that keeps its candidate on a tie
ReplacesSmallerOnly(values, i, found) ==
    found = 0 \/ values[i].textLength < values[found].textLength

\* !foundNode || node.textLength <= foundNode.textLength
Replaces(values, i, found) ==
    found = 0 \/ values[i].textLength <= values[found].textLength

\* The loop over nodeMap.values() from the i-th value on, with foundNode = found
RECURSIVE Scan(_, _, _, _, _)
Scan(values, i, line, column, found) ==
    IF i > Len(values)
    THEN found
    ELSE Scan(values, i + 1, line, column,
              IF Contains(values[i], line, column) /\ Replaces(values, i, found)
              THEN i
              ELSE found)

\* The locator: the 1-based line and column of the position, then the scan
LocateNode(values, pos) ==
    Scan(values, 1, pos.line + 1, pos.character + 1, 0)

LocateInit ==
    /\ RunnerIdle
    /\ ViewIdle
    /\ pc = "index"
    /\ flatData = JArray(<<>>)
    /\ mappedData = EmptyForest
    /\ collected = <<>>
    /\ \E n \in 0..MaxIndex : \E e \in [1..n -> Extents] :
          nodeMap = IndexWith(e)
    /\ selection \in Selections
    /\ foundNode = 0
    /\ ps = NoRun
    /\ analysis = NoAnalysis

\* revealNodeForSelection, as far as the search for the node
Locate ==
    /\ pc = "index"
    /\ pc' = "located"
    /\ foundNode' = LocateNode(nodeMap, selection)
    /\ UNCHANGED <<sessionVars, astNode, viewVars, flatData, mappedData, collected, nodeMap,
                   selection, ps, analysis>>

LocateNext == Locate

SpecLocate == LocateInit /\ [][LocateNext]_vars

(* ---------------------------- analyzeContent --------------------------- *)

\* Text is a sequence of pieces: a JSON document, white space, or
\* something that is not JSON.
Blank == [json |-> "blank"]
NotJson == [json |-> "invalid"]

\* What AstParse.ps1 prints from its catch block, before exit 1
ErrorDocument(message) ==
    [json |-> "object", error |-> TRUE, message |-> message,
     type |-> "ParseError"]

Messages == {"m1", "m2"}
ParseErrors == {<<>>, <<[message |-> "m1"]>>}

\* The result of a step that can throw
Ok(v) == [ok |-> TRUE, value |-> v]
Thrown(e) == [ok |-> FALSE, error |-> e]

\* The errors of the analysis
SpawnError == [msg |-> "spawn error"]
ExecutionFailed(code, stdout) ==
    [msg |-> "PowerShell execution failed", code |-> code, stdout |-> stdout]
SyntaxError == [msg |-> "SyntaxError"]
ParsingError(message) ==
    [msg |-> "PowerShell parsing error", message |-> message]
JsonParsingFailed(cause, raw) ==
    [msg |-> "JSON parsing failed", cause |-> cause, raw |-> raw]
NoOutput == [msg |-> "No output returned from PowerShell script"]
FailedToAnalyze(cause) ==
    [msg |-> "Failed to analyze PowerShell AST", cause |-> cause]

\* String.prototype.trim on the output: the white space at both ends goes
RECURSIVE CleanStart(_)
CleanStart(text) ==
    IF text # <<>> /\ Head(text) = Blank THEN CleanStart(Tail(text)) ELSE text

RECURSIVE CleanEnd(_)
CleanEnd(text) ==
    IF text # <<>> /\ text[Len(text)] = Blank
    THEN CleanEnd(SubSeq(text, 1, Len(text) - 1))
    ELSE text

CleanOutput(text) == CleanEnd(CleanStart(text))

\* executePowerShell, once the process has closed or failed to start
ExecutePowerShell(run) ==
    IF run.error
    THEN Thrown(SpawnError)
    ELSE IF run.code = 0
         THEN Ok(CleanOutput(run.stdout))
         ELSE Thrown(ExecutionFailed(run.code, run.stdout))

\* JSON.parse: one document and nothing else
JSONParse(text) ==
    IF Len(text) = 1 /\ text[1].json \in {"object", "array"}
    THEN Ok(text[1])
    ELSE Thrown(SyntaxError)

\* astData.error is truthy
HasError(parsed) == "error" \in DOMAIN parsed /\ parsed.error = TRUE

\* analyzeContent from the output of the script to the mapped data
MapResult(result) ==
    IF result # <<>>
    THEN LET parsed == JSONParse(result) IN
         IF ~parsed.ok
         THEN Thrown(JsonParsingFailed(parsed.error, result))
         ELSE IF HasError(parsed.value)
              THEN Thrown(JsonParsingFailed(ParsingError(parsed.value.message),
                                            result))
              ELSE Ok(BuildTreeFromFlatData(parsed.value))
    ELSE Thrown(NoOutput)

\* An analyzeContent without its outer catch: the error reaches the caller
Rethrows(r) ==
    IF r.ok
    THEN [outcome |-> "returned", value |-> r.value, shown |-> NoMessage,
          thrown |-> NoMessage]
    ELSE [outcome |-> "threw", value |-> EmptyForest, shown |-> NoMessage,
          thrown |-> r.error]

\* The end of analyzeContent: the mapped data, or, from the outer catch, an
\* error message for the user and the empty list
CatchAndReturn(r) ==
    IF r.ok
    THEN [outcome |-> "returned", value |-> r.value, shown |-> NoMessage,
          thrown |-> NoMessage]
    ELSE [outcome |-> "returned", value |-> EmptyForest,
          shown |-> FailedToAnalyze(r.error), thrown |-> NoMessage]

\* analyzeContent after the await, for the parser run
AnalysisOutcome(run) ==
    LET executed == ExecutePowerShell(run) IN
    CatchAndReturn(IF executed.ok THEN MapResult(executed.value) ELSE executed)

AnalyzeInit ==
    /\ RunnerIdle
    /\ ViewIdle
    /\ pc = "call"
    /\ flatData = JArray(<<>>)
    /\ mappedData = EmptyForest
    /\ collected = <<>>
    /\ nodeMap = <<>>
    /\ selection = [line |-> 0, character |-> 0]
    /\ foundNode = 0
    /\ analysis = NoAnalysis
    /\ \/ \E n \in 0..MaxDocNodes : \E items \in [1..n -> FlatNodes] :
          \E errors \in ParseErrors :
             ps = [error |-> FALSE, code |-> 0,
                   stdout |-> <<SuccessDocument(items, errors), Blank>>]
       \/ \E n \in 0..MaxDocNodes : \E items \in [1..n -> FlatNodes] :
             ps = [error |-> FALSE, code |-> 0, stdout |-> <<JArray(items), Blank>>]
       \/ \E m \in Messages : \E code \in {0, 1} :
             ps = [error |-> FALSE, code |-> code,
                   stdout |-> <<ErrorDocument(m), Blank>>]
       \/ \E code \in {0, 1} : \E text \in {<<>>, <<Blank>>} :
             ps = [error |-> FALSE, code |-> code, stdout |-> text]
       \/ ps = [error |-> FALSE, code |-> 0, stdout |-> <<NotJson, Blank>>]
       \/ ps = [error |-> TRUE, code |-> 0, stdout |-> <<>>]

\* analyzeContent up to the await: the parser process is started
AnalyzeContent ==
    /\ pc = "call"
    /\ pc' = "awaiting"
    /\ analysis' = [analysis EXCEPT !.outcome = "running"]
    /\ UNCHANGED <<sessionVars, astNode, viewVars, flatData, mappedData, collected, nodeMap,
                   selection, foundNode, ps>>

\* 'close' of the parser process, and analyzeContent from the await on
PsClose ==
    /\ pc = "awaiting"
    /\ ~ps.error
    /\ pc' = "done"
    /\ analysis' = AnalysisOutcome(ps)
    /\ UNCHANGED <<sessionVars, astNode, viewVars, flatData, mappedData, collected, nodeMap,
                   selection, foundNode, ps>>

\* 'error' of the parser process, and analyzeContent from the await on
PsError ==
    /\ pc = "awaiting"
    /\ ps.error
    /\ pc' = "done"
    /\ analysis' = AnalysisOutcome(ps)
    /\ UNCHANGED <<sessionVars, astNode, viewVars, flatData, mappedData, collected, nodeMap,
                   selection, foundNode, ps>>

AnalyzeNext == AnalyzeContent \/ PsClose \/ PsError

SpecAnalyze == AnalyzeInit /\ [][AnalyzeNext]_vars

(* ------------------- AstState and the commands of activate ------------- *)

\* vscode.window.activeTextEditor and its document: none, a saved script,
\* an untitled PowerShell document, a text file
NoEditor ==
    [present |-> FALSE, languageId |-> "", extension |-> "",
     isUntitled |-> FALSE, fileName |-> "", uri |-> ""]

Editors ==
    {NoEditor,
     [present |-> TRUE, languageId |-> "powershell", extension |-> ".ps1",
      isUntitled |-> FALSE, fileName |-> "a.ps1", uri |-> "file:a.ps1"],
     [present |-> TRUE, languageId |-> "powershell", extension |-> "",
      isUntitled |-> TRUE, fileName |-> "Untitled-1",
      uri |-> "untitled:Untitled-1"],
     [present |-> TRUE, languageId |-> "plaintext", extension |-> ".txt",
      isUntitled |-> FALSE, fileName |-> "notes.txt",
      uri |-> "file:notes.txt"]}

\* isPowerShellDocument
IsPowerShellDocument(document) ==
    \/ document.languageId = "powershell"
    \/ document.extension \in {".ps1", ".psm1", ".psd1"}

\* fileIdentifier of analyzeCurrentEditor, activeFilePath of the locator
FileIdentifier(document) ==
    IF document.isUntitled THEN document.uri ELSE document.fileName

\* The nodes the parser prints for the scripts of the view: the node of
\* hash code h spans the first h columns of line 1.
ViewNodes ==
    {FlatAstNode(h, p, TypeOf(p), 1, 1, 1, h, h) :
        h \in 1..MaxViewHash, p \in {Null} \cup (1..MaxViewHash)}

\* The objects of a forest that the n-th analysis has built: an object is
\* its fields and the call that created it.
NewObjects(forest, n) ==
    [rootNodes |-> forest.rootNodes,
     node |-> [h \in DOMAIN forest.node |-> [of |-> n] @@ forest.node[h]]]

\* The nodes of a forest that its roots and their children sequences reach
NodesOf(forest) ==
    LET walk == PreOrder(forest.rootNodes, forest.node)
    IN [i \in 1..Len(walk) |-> forest.node[walk[i]]]

\* The fields of AstState that setAstData, clear and setSelection assign,
\* and what the listeners of selection-changed have seen last
AstStateNow ==
    [astData |-> astData, currentFilePath |-> currentFilePath,
     nodeMap |-> nodeMap, currentNode |-> currentNode, observed |-> observed]

Becomes(s) ==
    /\ astData' = s.astData
    /\ currentFilePath' = s.currentFilePath
    /\ nodeMap' = s.nodeMap
    /\ currentNode' = s.currentNode
    /\ observed' = s.observed

\* setSelection: the listeners run while the event is fired
SetSelection(s, node) ==
    [s EXCEPT !.currentNode = node,
              !.observed = [node |-> node, astData |-> s.astData,
                            nodeMap |-> s.nodeMap]]

\* A collectNodes that does not descend into the children
RECURSIVE CollectRootsOnly(_, _, _)
CollectRootsOnly(nodes, heap, m) ==
    IF nodes = <<>>
    THEN m
    ELSE LET node == heap[Head(nodes)]
         IN CollectRootsOnly(Tail(nodes), heap,
                             MapSet(m, node.hashCode, node))

\* collectNodes of setAstData
RECURSIVE CollectNodes(_, _, _)
CollectNodes(nodes, heap, m) ==
    IF nodes = <<>>
    THEN m
    ELSE LET node == heap[Head(nodes)]
             m1 == MapSet(m, node.hashCode, node)
             m2 == IF Len(node.children) > 0
                   THEN CollectNodes(node.children, heap, m1)
                   ELSE m1
         IN CollectNodes(Tail(nodes), heap, m2)

\* Map.prototype.values
MapValues(m) == [i \in 1..Len(m.keys) |-> m.val[m.keys[i]]]

\* Map.prototype.get on a Map whose keys are the hash codes of its values:
\* the value in a sequence, the empty sequence for undefined
MapGet(values, k) ==
    SelectSeq(values, LAMBDA node : node.hashCode = k)

\* A setAstData that leaves the index as it is
SetAstDataStaleIndex(s, data, filePath) ==
    LET s1 == [s EXCEPT !.astData = data, !.currentFilePath = filePath]
    IN SetSelection(s1, IF Len(data.rootNodes) > 0
                        THEN data.node[data.rootNodes[1]]
                        ELSE NoNode)

\* A setAstData that leaves the selection as it is
SetAstDataKeepsSelection(s, data, filePath) ==
    LET m == CollectNodes(data.rootNodes, data.node, EmptyMap)
    IN [s EXCEPT !.astData = data, !.currentFilePath = filePath,
                 !.nodeMap = MapValues(m)]

\* setAstData
SetAstData(s, data, filePath) ==
    LET m == CollectNodes(data.rootNodes, data.node, EmptyMap)
        s1 == [s EXCEPT !.astData = data, !.currentFilePath = filePath,
                        !.nodeMap = MapValues(m)]
    IN SetSelection(s1, IF Len(data.rootNodes) > 0
                        THEN data.node[data.rootNodes[1]]
                        ELSE NoNode)

\* A clear that keeps the file path and fires no event
ClearSilently(s) ==
    [s EXCEPT !.astData = EmptyForest, !.nodeMap = <<>>,
              !.currentNode = NoNode]

\* clear
Clear(s) ==
    SetSelection([s EXCEPT !.astData = EmptyForest,
                           !.currentFilePath = NoFile,
                           !.nodeMap = <<>>],
                 NoNode)

\* A setAnalyzing that fires no event
SetAnalyzingUnnotified(events, analyzing) ==
    [isAnalyzing |-> analyzing, analyzingEvents |-> events]

\* setAnalyzing, for the events fired so far
SetAnalyzing(events, analyzing) ==
    [isAnalyzing |-> analyzing, analyzingEvents |-> Append(events, analyzing)]

\* A guard that lets every request pass
RefusesNothing(analyzing) == FALSE

\* if (astState.isAnalyzing)
Refuses(analyzing) == analyzing

\* An analysis has started and its result is not installed yet
Analyzing ==
    \E i \in 1..Len(analyses) : analyses[i].at \in {"started", "parsing"}

\* The answer of a query
Answer(nodes) == [during |-> Analyzing, nodes |-> nodes]

\* What the commands of the view leave alone
toolVars == <<pc, flatData, mappedData, collected, selection, foundNode,
              ps, analysis, astNode, nodesByLevel, revealed>>

\* analyzeCurrentEditor up to its first await: the request is refused, or
\* finds no PowerShell editor, or an analysis starts
AnalyzeCurrentEditor(editor) ==
    IF Refuses(isAnalyzing)
    THEN /\ lastMessage' = "Analysis already in progress..."
         /\ UNCHANGED <<isAnalyzing, analyzingEvents, analyses>>
    ELSE IF ~editor.present
    THEN /\ lastMessage' = "No active editor found"
         /\ UNCHANGED <<isAnalyzing, analyzingEvents, analyses>>
    ELSE IF ~IsPowerShellDocument(editor)
    THEN /\ lastMessage' = "Active editor is not a PowerShell file"
         /\ UNCHANGED <<isAnalyzing, analyzingEvents, analyses>>
    ELSE /\ Len(analyses) < MaxAnalyses
         /\ LET s == SetAnalyzing(analyzingEvents, TRUE) IN
            /\ isAnalyzing' = s.isAnalyzing
            /\ analyzingEvents' = s.analyzingEvents
         /\ analyses' = Append(analyses, [file |-> FileIdentifier(editor),
                                          at |-> "started"])
         /\ UNCHANGED lastMessage

\* powershellAst.refresh
RefreshCommand(editor) ==
    /\ AnalyzeCurrentEditor(editor)
    /\ UNCHANGED <<sessionVars, toolVars, astData, currentFilePath, nodeMap,
                   currentNode, observed, returned>>

\* powershellAst.analyzeContent
AnalyzeContentCommand(editor) ==
    /\ IF ~editor.present
       THEN /\ lastMessage' = "No active PowerShell editor found"
            /\ UNCHANGED <<isAnalyzing, analyzingEvents, analyses>>
       ELSE IF ~IsPowerShellDocument(editor)
       THEN /\ lastMessage' = "Active editor is not a PowerShell file"
            /\ UNCHANGED <<isAnalyzing, analyzingEvents, analyses>>
       ELSE AnalyzeCurrentEditor(editor)
    /\ UNCHANGED <<sessionVars, toolVars, astData, currentFilePath, nodeMap,
                   currentNode, observed, returned>>

\* The task of withProgress up to its await: analyzeContent is called and
\* starts the parser process
InvokeParser(i) ==
    /\ analyses[i].at = "started"
    /\ analyses' = [analyses EXCEPT ![i].at = "parsing"]
    /\ UNCHANGED <<sessionVars, toolVars, nodeMap, isAnalyzing, astData,
                   currentFilePath, currentNode, observed, analyzingEvents,
                   lastMessage, returned>>

\* A task that installs nothing when analyzeContent has failed
InstallKeepsOnFailure(i, run) ==
    /\ analyses[i].at = "parsing"
    /\ analyses' = [analyses EXCEPT ![i].at = "installed"]
    /\ LET outcome == AnalysisOutcome(run) IN
       IF outcome.shown # NoMessage
       THEN /\ lastMessage' = outcome.shown.msg
            /\ UNCHANGED <<astData, currentFilePath, nodeMap, currentNode,
                           observed>>
       ELSE /\ Becomes(SetAstData(AstStateNow, NewObjects(outcome.value, i),
                                  analyses[i].file))
            /\ UNCHANGED lastMessage
    /\ UNCHANGED <<sessionVars, toolVars, isAnalyzing, analyzingEvents,
                   returned>>

\* The parser process of the i-th analysis ends as run says: analyzeContent
\* returns and the task installs its result
InstallResult(i, run) ==
    /\ analyses[i].at = "parsing"
    /\ analyses' = [analyses EXCEPT ![i].at = "installed"]
    /\ LET outcome == AnalysisOutcome(run) IN
       /\ Becomes(SetAstData(AstStateNow, NewObjects(outcome.value, i),
                             analyses[i].file))
       /\ lastMessage' = IF outcome.shown # NoMessage
                         THEN outcome.shown.msg
                         ELSE lastMessage
    /\ UNCHANGED <<sessionVars, toolVars, isAnalyzing, analyzingEvents,
                   returned>>

\* 'close' of the parser process: it has printed a node list, the
\* document of a parsed script, the document of a failure, nothing, or
\* something that is not JSON
ParserCloses(i) ==
    \/ \E n \in 0..MaxViewNodes : \E items \in [1..n -> ViewNodes] :
          InstallResult(i, [error |-> FALSE, code |-> 0,
                            stdout |-> <<JArray(items), Blank>>])
    \/ \E n \in 0..1 : \E items \in [1..n -> ViewNodes] :
          InstallResult(i, [error |-> FALSE, code |-> 0,
                            stdout |-> <<SuccessDocument(items, <<>>), Blank>>])
    \/ \E code \in {0, 1} :
          InstallResult(i, [error |-> FALSE, code |-> code,
                            stdout |-> <<ErrorDocument("m1"), Blank>>])
    \/ \E text \in {<<>>, <<Blank>>} :
          InstallResult(i, [error |-> FALSE, code |-> 0, stdout |-> text])
    \/ InstallResult(i, [error |-> FALSE, code |-> 0,
                         stdout |-> <<NotJson, Blank>>])

\* 'error' of the parser process
ParserFails(i) ==
    InstallResult(i, [error |-> TRUE, code |-> 0, stdout |-> <<>>])

\* The finally block of analyzeCurrentEditor
FinishAnalysis(i) ==
    /\ analyses[i].at = "installed"
    /\ analyses' = [analyses EXCEPT ![i].at = "finished"]
    /\ LET s == SetAnalyzing(analyzingEvents, FALSE) IN
       /\ isAnalyzing' = s.isAnalyzing
       /\ analyzingEvents' = s.analyzingEvents
    /\ UNCHANGED <<sessionVars, toolVars, nodeMap, astData, currentFilePath,
                   currentNode, observed, lastMessage, returned>>

\* powershellAst.clear
ClearCommand ==
    /\ Becomes(Clear(AstStateNow))
    /\ UNCHANGED <<sessionVars, toolVars, isAnalyzing, analyzingEvents,
                   analyses, lastMessage, returned>>

\* A click on the k-th node that the tree shows (treeView's
\* onDidChangeSelection, showast.selectItem)
SelectItem(k) ==
    /\ k \in 1..Len(NodesOf(astData))
    /\ Becomes(SetSelection(AstStateNow, NodesOf(astData)[k]))
    /\ UNCHANGED <<sessionVars, toolVars, isAnalyzing, analyzingEvents,
                   analyses, lastMessage, returned>>

\* getChildren without an element (k = 0) or for the k-th node that the
\* tree shows
GetChildren(k) ==
    /\ k \in 0..Len(NodesOf(astData))
    /\ returned' =
          LET hashes == IF k = 0
                        THEN astData.rootNodes
                        ELSE NodesOf(astData)[k].children
          IN Answer([i \in 1..Len(hashes) |-> astData.node[hashes[i]]])
    /\ UNCHANGED <<sessionVars, toolVars, nodeMap, isAnalyzing, astData,
                   currentFilePath, currentNode, observed, analyzingEvents,
                   analyses, lastMessage>>

\* getParent for the k-th node that the tree shows
GetParent(k) ==
    /\ k \in 1..Len(NodesOf(astData))
    /\ returned' =
          LET element == NodesOf(astData)[k] IN
          IF element.parentHashCode = Null
          THEN Answer(<<>>)
          ELSE Answer(MapGet(nodeMap, element.parentHashCode))
    /\ UNCHANGED <<sessionVars, toolVars, nodeMap, isAnalyzing, astData,
                   currentFilePath, currentNode, observed, analyzingEvents,
                   analyses, lastMessage>>

\* powershellAst.revealNodeForSelection, as far as the node it reveals
RevealNodeForSelection(editor, pos) ==
    /\ IF ~editor.present
       THEN /\ lastMessage' = "No active editor found"
            /\ returned' = Answer(<<>>)
       ELSE IF currentFilePath # FileIdentifier(editor)
       THEN /\ lastMessage' = "The active editor does not match the file"
            /\ returned' = Answer(<<>>)
       ELSE LET found == LocateNode(nodeMap, pos) IN
            IF found = 0
            THEN /\ lastMessage' = "No AST node found"
                 /\ returned' = Answer(<<>>)
            ELSE /\ returned' = Answer(<<nodeMap[found]>>)
                 /\ UNCHANGED lastMessage
    /\ UNCHANGED <<sessionVars, toolVars, nodeMap, isAnalyzing, astData,
                   currentFilePath, currentNode, observed, analyzingEvents,
                   analyses>>

ViewNext ==
    \/ \E editor \in Editors : RefreshCommand(editor)
    \/ \E editor \in Editors : AnalyzeContentCommand(editor)
    \/ \E i \in 1..Len(analyses) : InvokeParser(i)
    \/ \E i \in 1..Len(analyses) : ParserCloses(i)
    \/ \E i \in 1..Len(analyses) : ParserFails(i)
    \/ \E i \in 1..Len(analyses) : FinishAnalysis(i)
    \/ ClearCommand
    \/ \E k \in 1..Len(NodesOf(astData)) : SelectItem(k)
    \/ \E k \in 0..Len(NodesOf(astData)) : GetChildren(k)
    \/ \E k \in 1..Len(NodesOf(astData)) : GetParent(k)
    \/ \E editor \in Editors : \E pos \in Selections :
          RevealNodeForSelection(editor, pos)

SpecView == Init /\ [][ViewNext]_vars


(* ======================================================================= *)
(*                               Properties                                *)
(* ======================================================================= *)

Futures == 1..Len(fut)
IsSettled(f) == fut[f].st # "pending"
IsResolved(f) == fut[f].st = "resolved"
IsRejected(f) == fut[f].st = "rejected"

\* The place of future f in the order of settlement
SettledAt(f) == CHOOSE i \in 1..Len(settledOrder) : settledOrder[i] = f

\* The trimmed output of command c
Out(c) == Trim(CommandOutput(c))

\* No process event other than data has occurred and nothing has failed.
NoFailure ==
    /\ ~isDisposed
    /\ nErrEvents = 0
    /\ nSpawnFail = 0
    /\ nWriteThrows = 0
    /\ \A p \in Procs : spawned[p] => alive[p]

\* Two invoke calls, the second made while the first was pending and before
\* any stdout had arrived, both written to the first child.
TwoConcurrent ==
    /\ Len(fut) = 2
    /\ fut[1].proc = 1
    /\ fut[2].proc = 1
    /\ fut[2].ahead = 1
    /\ fut[2].at = 0
    /\ NoFailure

\* Both responses of that child have been delivered on stdout.
BothDelivered ==
    /\ pipe[1] = <<>>
    /\ recv[1] = Response(fut[1].cmd) \o Response(fut[2].cmd)

C2_ConcurrentBothResolveOwnOutput ==
    (TwoConcurrent /\ fut[1].cmd # fut[2].cmd /\ BothDelivered) =>
        /\ IsResolved(1) /\ Includes(fut[1].val, Out(fut[1].cmd))
        /\ IsResolved(2) /\ Includes(fut[2].val, Out(fut[2].cmd))

(* ---- C3 ---- *)
\* C3: a second invoke issued before the first resolves is only enqueued, and
\* once the two responses have been received on stdout both futures are
\* resolved, in submission order, however the responses were grouped within
\* chunks (no chunk boundary inside a sentinel, no stderr output).
C3_BothResolvedHoweverGrouped ==
    (/\ Len(fut) = 2
     /\ fut[1].proc = 1 /\ fut[2].proc = 1
     /\ fut[2].ahead = 1
     /\ NoFailure
     /\ nStderr = 0
     /\ ~cut
     /\ BothDelivered)
        => (IsResolved(1) /\ IsResolved(2) /\ settledOrder = <<1, 2>>)

(* ---- C4 ---- *)
\* C4: when a chunk with the sentinel arrives, the buffer (what was
\* accumulated, followed by the chunk) is split at the first sentinel: the
\* oldest pending request, when resolved, is resolved with the trimmed text
\* before that sentinel, and everything after that sentinel is the buffer
\* afterwards (the empty buffer when nothing follows the sentinel).
C4_BufferSplitAtFirstSentinel ==
    [][\A p \in Procs : \A n \in 1..Len(pipe[p]) :
          LET chunk == SubSeq(pipe[p], 1, n)
              buf == currentData \o chunk
              i == IndexOf(buf, Sentinel)
          IN (StdoutData(p, n) /\ Includes(chunk, Sentinel)) =>
                /\ currentData' = SubSeq(buf, i + Len(Sentinel), Len(buf))
                /\ pendingCallbacks # <<>> =>
                      LET f == Head(pendingCallbacks) IN
                      fut'[f].st = "resolved" =>
                          fut'[f].val = Trim(SubSeq(buf, 1, i - 1))
      ]_vars

(* ---- C5 ---- *)
\* C5: the sentinel is looked for in the rolling buffer: the first request
\* written to a child, once no older request is pending, is completed as
\* soon as the stdout received from that child contains the sentinel,
\* wherever the chunks were cut.
C5_CompletedOnceStreamHoldsSentinel ==
    \A f \in Futures :
        LET p == fut[f].proc IN
        (/\ p # 0
         /\ fut[f].at = 0
         /\ \A g \in 1..(f - 1) : fut[g].proc # p
         /\ Includes(recv[p], Sentinel)
         /\ (pendingCallbacks # <<>> => Head(pendingCallbacks) >= f))
            => IsSettled(f)

(* ---- C6 ---- *)
\* C6: when a request is completed by the sentinel it is rejected with the
\* stderr text if the stderr buffer is non-blank and the stdout buffer is
\* blank, and in every other case resolved with the trimmed stdout buffer.
C6_StderrRejectsOnlyBlankStdout ==
    [][\A p \in Procs : \A n \in 1..Len(pipe[p]) :
          LET chunk == SubSeq(pipe[p], 1, n)
              data == currentData \o Split(chunk, Sentinel)[1]
          IN (/\ StdoutData(p, n)
              /\ Includes(chunk, Sentinel)
              /\ pendingCallbacks # <<>>) =>
                LET f == Head(pendingCallbacks) IN
                IF Trim(currentError) # <<>> /\ Trim(data) = <<>>
                THEN /\ fut'[f].st = "rejected"
                     /\ fut'[f].why = "stderr"
                     /\ fut'[f].val = currentError
                ELSE /\ fut'[f].st = "resolved"
                     /\ fut'[f].val = Trim(data)
      ]_vars

\* The sentinel has completed a request whose stdout buffer was blank while
\* stderr text was in the buffer: it was rejected with that text.
C6_Witness ==
    \E f \in Futures :
        IsRejected(f) /\ fut[f].why = "stderr" /\ Trim(fut[f].val) # <<>>

(* ---- C7 ---- *)
\* C7: every enqueued future whose command was written to a process that has
\* exited, without the future having been resolved before, is rejected: none
\* is left pending once that process is gone and nothing it wrote remains to
\* be delivered.
C7_NonePendingAfterExit ==
    \A f \in Futures :
        LET p == fut[f].proc IN
        (fut[f].enq /\ p # 0 /\ spawned[p] /\ ~alive[p] /\ pipe[p] = <<>>)
            => IsSettled(f)

(* ---- C8 ---- *)
\* C8: an 'error' or 'exit' event removes exactly the oldest pending callback
\* and rejects it with the cause; with an empty queue it settles nothing; no
\* other future is settled by the event.
C8_EventRejectsOldestOnly ==
    [][\A p \in Procs :
          ((\E k \in 0..Len(pipe[p]) : ProcessExit(p, k)) \/ ProcessError(p)) =>
             IF pendingCallbacks = <<>>
             THEN fut' = fut /\ settledOrder' = settledOrder
                  /\ pendingCallbacks' = <<>>
             ELSE LET f == Head(pendingCallbacks) IN
                  /\ pendingCallbacks' = Tail(pendingCallbacks)
                  /\ fut[f].st = "pending"
                  /\ fut'[f].st = "rejected"
                  /\ fut'[f].why = (IF alive'[p] THEN "error" ELSE "exit")
                  /\ settledOrder' = Append(settledOrder, f)
                  /\ \A g \in Futures : g # f => fut'[g] = fut[g]
      ]_vars

\* An event has rejected the oldest request and the next one is still pending
\* in the queue.
C8_Witness ==
    /\ Len(fut) >= 2
    /\ IsRejected(1) /\ fut[1].why \in {"exit", "error"}
    /\ fut[2].st = "pending"
    /\ pendingCallbacks = <<2>>

(* ---- C9 ---- *)
\* C9: a process is started only by an invoke call on a runner that is not
\* disposed and holds no process, never by an exit or error event; that
\* invoke call starts the process before it writes its command, which goes
\* to the new process; an invoke call on a runner with a live process starts
\* none.
C9_LazyRespawn ==
    [][/\ nProcs' # nProcs =>
             /\ Len(fut') = Len(fut) + 1
             /\ ~isDisposed /\ process = 0
       /\ (Len(fut') = Len(fut) + 1 /\ ~isDisposed /\ process = 0) =>
             /\ nProcs' = nProcs + 1
             /\ process' = nProcs'
             /\ fut'[Len(fut')].proc \in {0, nProcs'}
       /\ (Len(fut') = Len(fut) + 1 /\ \E p \in Procs : alive[p]) =>
             /\ nProcs' = nProcs
      ]_vars

\* The process has exited, and a later invoke has started a second one and
\* written its command to it.
C9_Witness ==
    /\ nProcs = 2
    /\ ~alive[1] /\ alive[2]
    /\ \E f \in Futures : fut[f].proc = 2

(* ---- C10 ---- *)
\* C10: if the process exits while the first invoke is pending, the first
\* future is rejected, and a subsequent invoke restarts the process and is
\* resolved with the output of its own command once the new process has
\* emitted it followed by the sentinel.
C10_ResolvesAfterRestart ==
    (/\ Len(fut) >= 2
     /\ fut[1].proc = 1 /\ ~alive[1]
     /\ fut[2].ahead = 0
     /\ fut[2].proc = 2 /\ alive[2]
     /\ ~isDisposed /\ nErrEvents = 0 /\ nStderr = 0
     /\ recv[1] = <<>> /\ pipe[1] = <<>>
     /\ Len(fut) = 2
     /\ recv[2] = Response(fut[2].cmd))
        => /\ IsRejected(1) /\ fut[1].why = "exit"
           /\ IsResolved(2) /\ fut[2].val = Out(fut[2].cmd)

(* ---- C11 ---- *)
\* C11: after dispose the runner is terminated for good: it holds no process
\* handle, it stays disposed, no process is started any more, and every
\* invoke call returns a future that is already rejected, without a callback
\* having been pushed or anything having been written to a process.
C11_DisposedIsTerminal ==
    /\ [](isDisposed => process = 0)
    /\ [][isDisposed =>
             /\ isDisposed'
             /\ nProcs' = nProcs
             /\ spawned' = spawned
             /\ Len(pendingCallbacks') <= Len(pendingCallbacks)
             /\ Len(fut') = Len(fut) + 1 =>
                   /\ fut'[Len(fut')].st = "rejected"
                   /\ fut'[Len(fut')].why = "disposed"
                   /\ ~fut'[Len(fut')].enq
                   /\ pendingCallbacks' = pendingCallbacks
                   /\ pipe' = pipe
         ]_vars

\* An invoke call was made on a disposed runner whose process had been
\* started and used before.
C11_Witness ==
    /\ isDisposed
    /\ Len(fut) = 2
    /\ fut[1].proc = 1
    /\ IsRejected(2) /\ fut[2].why = "disposed"

(* ---- C12 ---- *)
\* C12: at most one process started by the runner is alive at any time: a
\* process is started only while the runner holds no handle, and the handle
\* is cleared only when the process it refers to has exited (it no longer
\* runs) or has been killed (by dispose).
C12_AtMostOneProcessAlive ==
    /\ [](Cardinality({p \in Procs : alive[p]}) <= 1)
    /\ [][/\ nProcs' # nProcs => process = 0
          /\ (process # 0 /\ process' = 0) =>
                \/ ~alive'[process]
                \/ ~isDisposed /\ isDisposed'
         ]_vars

\* A second process was started after the first had exited, and dispose has
\* killed it and cleared the handle while it still runs.
C12_Witness ==
    /\ nProcs = 2
    /\ spawned[1] /\ ~alive[1]
    /\ spawned[2] /\ alive[2]
    /\ isDisposed /\ process = 0

(* ---- C13 ---- *)
\* C13: a process exit costs one response only: once a process has exited,
\* a future is resolved only if its command was written to a process that
\* still runs (it was issued after the exit, not before it), and it is
\* resolved with the output of its own command.
C13_ExitIsLocalToOneInvoke ==
    [][(\E p \in Procs : spawned[p] /\ ~alive[p]) =>
          \A f \in Futures :
              (fut[f].st = "pending" /\ fut'[f].st = "resolved") =>
                  /\ fut[f].proc # 0
                  /\ alive[fut[f].proc]
                  /\ fut'[f].val = Out(fut[f].cmd)
      ]_vars

(* --------------------- properties of the tree builder ------------------ *)

\* The list under test; a value that is no list has no entries
Items == IF IsArray(flatData) THEN flatData.items ELSE <<>>

HashesOf(items) == {items[i].hashCode : i \in 1..Len(items)}

UniqueHashes(items) ==
    \A i, j \in 1..Len(items) :
        i # j => items[i].hashCode # items[j].hashCode

\* The parentHashCode of the node of the list with hash code h
ParentOf(items, h) ==
    items[CHOOSE i \in 1..Len(items) : items[i].hashCode = h].parentHashCode

\* Following parents from the node with hash code h reaches a parentless
\* node within n steps.
RECURSIVE ReachesRoot(_, _, _)
ReachesRoot(items, h, n) ==
    LET p == ParentOf(items, h) IN
    \/ p = Null
    \/ n > 0 /\ p \in HashesOf(items) /\ ReachesRoot(items, p, n - 1)

\* Unique hash codes, every parent reference resolves, no cycle
Consistent(items) ==
    /\ UniqueHashes(items)
    /\ \A i \in 1..Len(items) :
          ReachesRoot(items, items[i].hashCode, Len(items))

\* The nodes of the list whose parent reference does not resolve
Orphans(items) ==
    {i \in 1..Len(items) :
        items[i].parentHashCode # Null
        /\ items[i].parentHashCode \notin HashesOf(items)}

\* How often k occurs in the sequence q
Occurrences(q, k) == Cardinality({i \in 1..Len(q) : q[i] = k})

\* How often the node k occurs in children sequences other than that of p
OccurrencesElsewhere(heap, p, k) ==
    Cardinality({h \in DOMAIN heap : h # p /\ Occurrences(heap[h].children, k) > 0})

\* The flat node a tree node was made of
FlatOf(treeNode) ==
    [id |-> treeNode.id, hashCode |-> treeNode.hashCode,
     parentHashCode |-> treeNode.parentHashCode, type |-> treeNode.type,
     text |-> treeNode.text, textLength |-> treeNode.textLength,
     extentString |-> treeNode.extentString,
     StartLineNumber |-> treeNode.startLine,
     StartColumnNumber |-> treeNode.startColumn,
     EndLineNumber |-> treeNode.endLine,
     EndColumnNumber |-> treeNode.endColumn,
     properties |-> treeNode.properties]

(* ---- C14 ---- *)
\* C14: for a list with unique hash codes and a consistent parent graph the
\* forest built has as many nodes as the list has entries, and its roots are
\* exactly the nodes whose parentHashCode is null, each once.
C14_ForestCountsAndRoots ==
    (pc = "collected" /\ Consistent(Items)) =>
        /\ Len(collected) = Len(Items)
        /\ \A i \in 1..Len(Items) :
              Occurrences(mappedData.rootNodes, Items[i].hashCode)
                  = (IF Items[i].parentHashCode = Null THEN 1 ELSE 0)
        /\ \A r \in 1..Len(mappedData.rootNodes) :
              mappedData.rootNodes[r] \in HashesOf(Items)

\* A consistent list of full length with a root, a child of it and a
\* grandchild has been built and walked.
C14_Witness ==
    /\ pc = "collected"
    /\ Consistent(Items)
    /\ Len(Items) = MaxNodes
    /\ \E i, j, k \in 1..Len(Items) :
          /\ Items[i].parentHashCode = Null
          /\ Items[j].parentHashCode = Items[i].hashCode
          /\ Items[k].parentHashCode = Items[j].hashCode

(* ---- C15 ---- *)
\* C15: for a list (unique hash codes) with exactly one orphan, the orphan is
\* in no children sequence and not among the roots, and every other node is
\* a root, once, if it is parentless, and otherwise a child, once, of
\* exactly the node its parentHashCode names.
C15_OrphanExcludedOthersLinked ==
    (pc = "built" /\ UniqueHashes(Items) /\ Cardinality(Orphans(Items)) = 1) =>
        \A i \in 1..Len(Items) :
            LET k == Items[i].hashCode
                p == Items[i].parentHashCode
                heap == mappedData.node
            IN
            IF i \in Orphans(Items)
            THEN /\ Occurrences(mappedData.rootNodes, k) = 0
                 /\ OccurrencesElsewhere(heap, Null, k) = 0
            ELSE IF p = Null
            THEN /\ Occurrences(mappedData.rootNodes, k) = 1
                 /\ OccurrencesElsewhere(heap, Null, k) = 0
            ELSE /\ Occurrences(mappedData.rootNodes, k) = 0
                 /\ Occurrences(heap[p].children, k) = 1
                 /\ OccurrencesElsewhere(heap, p, k) = 0

\* A list of full length with one orphan, a root and a child of that root
\* has been built.
C15_Witness ==
    /\ pc = "built"
    /\ UniqueHashes(Items)
    /\ Len(Items) = MaxNodes
    /\ Cardinality(Orphans(Items)) = 1
    /\ \E i, j \in 1..Len(Items) :
          /\ Items[i].parentHashCode = Null
          /\ Items[j].parentHashCode = Items[i].hashCode
          /\ Len(mappedData.node[Items[i].hashCode].children) = 1

(* ---- C16 ---- *)
\* C16: round trip: for a consistent list, the nodes found by walking the
\* built forest in pre-order are, field by field, the nodes of the list:
\* none created, none lost, none twice.
C16_RoundTrip ==
    (pc = "collected" /\ Consistent(Items)) =>
        /\ {FlatOf(mappedData.node[collected[i]]) : i \in 1..Len(collected)}
               = {Items[i] : i \in 1..Len(Items)}
        /\ \A i, j \in 1..Len(collected) :
              i # j => collected[i] # collected[j]

\* A consistent list with two roots, one of them with a child, has been
\* built and walked; its nodes differ in type.
C16_Witness ==
    /\ pc = "collected"
    /\ Consistent(Items)
    /\ Len(mappedData.rootNodes) = 2
    /\ Len(collected) = MaxNodes
    /\ \E i, j \in 1..Len(Items) : Items[i].type # Items[j].type

(* ----------------------- properties of the locator -------------------- *)

\* The 1-based position searched for
Line == selection.line + 1
Column == selection.character + 1

\* The indexed nodes that contain the position
Containing == {i \in 1..Len(nodeMap) : Contains(nodeMap[i], Line, Column)}

\* The place of (line, column) when positions are counted line after line
Offset(line, column) == line * (MaxColumn + 1) + column

\* The position lies between the node's start and end, both included.
Encloses(node, line, column) ==
    /\ Offset(node.startLine, node.startColumn) <= Offset(line, column)
    /\ Offset(line, column) <= Offset(node.endLine, node.endColumn)

\* The positions of node a are positions of node b, and not all of them.
StrictlyInside(a, b) ==
    /\ Offset(b.startLine, b.startColumn) <= Offset(a.startLine, a.startColumn)
    /\ Offset(a.endLine, a.endColumn) <= Offset(b.endLine, b.endColumn)
    /\ \/ Offset(b.startLine, b.startColumn) < Offset(a.startLine, a.startColumn)
       \/ Offset(a.endLine, a.endColumn) < Offset(b.endLine, b.endColumn)

(* ---- C17 ---- *)
\* C17: the locator returns a node that contains the position and whose
\* textLength is the smallest among the indexed nodes containing it, and
\* returns none when no indexed node contains the position.
C17_SmallestEnclosing ==
    pc = "located" =>
        IF Containing = {}
        THEN foundNode = 0
        ELSE /\ foundNode \in Containing
             /\ \A i \in Containing :
                   nodeMap[foundNode].textLength <= nodeMap[i].textLength

\* Three nested nodes A, B, C of strictly decreasing textLength all contain
\* the position, C comes first in the index, and C has been returned.
C17_Witness ==
    /\ pc = "located"
    /\ Len(nodeMap) = 3
    /\ Containing = {1, 2, 3}
    /\ StrictlyInside(nodeMap[1], nodeMap[2])
    /\ StrictlyInside(nodeMap[2], nodeMap[3])
    /\ nodeMap[1].textLength < nodeMap[2].textLength
    /\ nodeMap[2].textLength < nodeMap[3].textLength
    /\ foundNode = 1

(* ---- C18 ---- *)
\* C18: containment is inclusive at both ends in (line, column) order: the
\* locator finds a node exactly when the position lies between the start
\* and the end of some indexed node, the boundaries included, and the node
\* found is such a node; a position one column past a node's end is not in
\* that node.
C18_InclusiveBothEnds ==
    pc = "located" =>
        /\ foundNode # 0 <=>
              \E i \in 1..Len(nodeMap) : Encloses(nodeMap[i], Line, Column)
        /\ foundNode # 0 => Encloses(nodeMap[foundNode], Line, Column)

\* The position is the end boundary of the only node, which starts earlier,
\* and the node has been returned.
C18_Witness ==
    /\ pc = "located"
    /\ Len(nodeMap) = 1
    /\ Offset(nodeMap[1].startLine, nodeMap[1].startColumn) < Offset(Line, Column)
    /\ nodeMap[1].endLine = Line
    /\ nodeMap[1].endColumn = Column
    /\ foundNode = 1

(* --------------------- properties of analyzeContent -------------------- *)

\* What the parser printed first
Document == ps.stdout[1]

\* The parser ran to its end, exited with 0 and printed the success document.
ParserSucceeded ==
    /\ ~ps.error
    /\ ps.code = 0
    /\ ps.stdout # <<>>
    /\ Document.json = "object"
    /\ "nodes" \in DOMAIN Document

\* The parser printed the error document.
ParserFailed ==
    /\ ~ps.error
    /\ ps.stdout # <<>>
    /\ Document.json = "object"
    /\ HasError(Document)

\* The error e carries the text m of the parser's message field.
RECURSIVE CarriesMessage(_, _)
CarriesMessage(e, m) ==
    \/ e.msg = "PowerShell parsing error" /\ e.message = m
    \/ /\ e.msg = "PowerShell execution failed"
       /\ \E i \in 1..Len(e.stdout) :
             HasError(e.stdout[i]) /\ e.stdout[i].message = m
    \/ /\ e.msg \in {"JSON parsing failed", "Failed to analyze PowerShell AST"}
       /\ CarriesMessage(e.cause, m)

(* ---- C19 ---- *)
\* C19: when the parser returns the success document with a non-empty
\* consistent node list, analyzeContent returns the forest built from that
\* list, whose roots are its parentless nodes, without reporting a failure,
\* also when the document lists parse errors.
C19_SuccessDocumentYieldsForest ==
    (/\ pc = "done"
     /\ ParserSucceeded
     /\ Document.nodes.items # <<>>
     /\ Consistent(Document.nodes.items)) =>
        /\ analysis.outcome = "returned"
        /\ analysis.shown = NoMessage
        /\ analysis.value = BuildTreeFromFlatData(Document.nodes)
        /\ \A i \in 1..Len(Document.nodes.items) :
              Occurrences(analysis.value.rootNodes,
                          Document.nodes.items[i].hashCode)
                  = (IF Document.nodes.items[i].parentHashCode = Null
                     THEN 1 ELSE 0)

(* ---- C20 ---- *)
\* C20 as stated: when the parser signals total failure (the error document
\* and a non-zero exit), analyzeContent ends with an error thrown to its
\* caller that carries the document's message, not with a list.
C20_FailureIsThrown ==
    (pc = "done" /\ ParserFailed /\ ps.code # 0) =>
        /\ analysis.outcome = "threw"
        /\ CarriesMessage(analysis.thrown, Document.message)

\* C20, amended: when the parser signals total failure (the error document,
\* with a non-zero exit or without), analyzeContent throws nothing to its
\* caller: it shows the user an error message that carries the document's
\* message and returns the empty list.
C20_FailureIsShownAndEmptyListReturned ==
    (pc = "done" /\ ParserFailed) =>
        /\ analysis.outcome = "returned"
        /\ analysis.thrown = NoMessage
        /\ analysis.value = EmptyForest
        /\ CarriesMessage(analysis.shown, Document.message)

\* The parser printed the error document and exited with 1, and
\* analyzeContent has ended in its outer catch.
C20_Witness ==
    /\ pc = "done"
    /\ ParserFailed
    /\ ps.code = 1
    /\ analysis.outcome = "returned"
    /\ analysis.shown.msg = "Failed to analyze PowerShell AST"
    /\ analysis.shown.cause.msg = "PowerShell execution failed"

(* ------------------- further properties of the runner ------------------ *)

(* ---- C27 ---- *)
\* C27: between events the stdout buffer holds the stdout bytes received
\* since the last completed request and the stderr buffer the stderr bytes of
\* that window: a chunk without the sentinel is appended, a stderr chunk is
\* appended, an invoke call made while an earlier request is pending discards
\* nothing of either buffer, and the completion of a request leaves in the
\* stdout buffer only what followed the sentinel and nothing in the stderr
\* buffer.
C27_BuffersHoldBytesSinceCompletion ==
    [][/\ \A p \in Procs : \A n \in 1..Len(pipe[p]) :
             LET chunk == SubSeq(pipe[p], 1, n) IN
             StdoutData(p, n) =>
                IF Includes(chunk, Sentinel)
                THEN pendingCallbacks # <<>> =>
                        /\ currentData' =
                              SubSeq(chunk,
                                     IndexOf(chunk, Sentinel) + Len(Sentinel),
                                     Len(chunk))
                        /\ currentError' = <<>>
                ELSE currentData' = currentData \o chunk
       /\ \A p \in Procs : \A chunk \in StderrChunks :
             StderrData(p, chunk) => currentError' = currentError \o chunk
       /\ (Len(fut') = Len(fut) + 1 /\ pendingCallbacks # <<>>) =>
             /\ currentData' = currentData
             /\ currentError' = currentError
      ]_vars

(* ---- C28 ---- *)
\* C28: when the write to stdin throws inside invoke(c), the future rejected
\* is the one that this invoke call returns; the futures of earlier requests
\* stay as they were and the queue of pending callbacks is as before the call.
C28_ThrowingWriteRejectsOwnFuture ==
    [][\A c \in Commands :
          InvokeWrites(c, TRUE) =>
             /\ fut'[Len(fut')].st = "rejected"
             /\ fut'[Len(fut')].why = "write"
             /\ \A g \in Futures : fut'[g] = fut[g]
             /\ pendingCallbacks' = pendingCallbacks
      ]_vars

(* ---- C29 ---- *)
\* C29: an invoke call whose restart fails to spawn returns a future rejected
\* with the spawn failure and leaves the runner without a process handle, and
\* an invoke call on a runner that is not disposed and holds no running
\* process starts a process, to which it then writes.
C29_SpawnFailureLeavesNoHandle ==
    [][/\ \A c \in Commands :
             InvokeSpawnFails(c) =>
                /\ fut'[Len(fut')].st = "rejected"
                /\ fut'[Len(fut')].why = "spawn"
                /\ process' = 0
       /\ (/\ Len(fut') = Len(fut) + 1
           /\ ~isDisposed
           /\ process # 0 /\ ~spawned[process]
           /\ nSpawnFail' = nSpawnFail) =>
                /\ nProcs' = nProcs + 1
                /\ fut'[Len(fut')].proc \in {0, nProcs'}
      ]_vars

(* ------------------ further properties of the tree builder ------------- *)

\* The hash codes of the nodes of the list whose parentHashCode is p, in the
\* order of the list
HashesWithParent(items, p) ==
    LET HasParent(flatNode) == flatNode.parentHashCode = p
        sel == SelectSeq(items, HasParent)
    IN [i \in 1..Len(sel) |-> sel[i].hashCode]

(* ---- C30 ---- *)
\* C30: for a list with unique hash codes, the roots of the forest built are
\* the parentless nodes in the order of the list, and the children of every
\* node are the nodes that name it as their parent, in the order of the list.
C30_RootsAndChildrenInInputOrder ==
    (pc = "built" /\ UniqueHashes(Items)) =>
        /\ mappedData.rootNodes = HashesWithParent(Items, Null)
        /\ \A i \in 1..Len(Items) :
              mappedData.node[Items[i].hashCode].children
                  = HashesWithParent(Items, Items[i].hashCode)

\* A list has been built in which a node stands after two children of its,
\* the child with the larger hash code first.
C30_Witness ==
    /\ pc = "built"
    /\ UniqueHashes(Items)
    /\ Len(Items) = MaxNodes
    /\ \E i, j, k \in 1..Len(Items) :
          /\ i < j /\ j < k
          /\ Items[i].hashCode > Items[j].hashCode
          /\ Items[i].parentHashCode = Items[k].hashCode
          /\ Items[j].parentHashCode = Items[k].hashCode
          /\ mappedData.node[Items[k].hashCode].children
                 = <<Items[i].hashCode, Items[j].hashCode>>

(* ------------------- properties of the script's strings ---------------- *)

\* s is the string src cut at cap characters: src itself up to cap
\* characters, nothing for null, and otherwise the first cap characters of
\* src and the marker
CutAt(s, src, cap) ==
    IF src.null \/ Len(src.chars) = 0
    THEN s = <<>>
    ELSE IF Len(src.chars) <= cap
         THEN s = src.chars
         ELSE /\ Len(s) = cap + 3
              /\ \A i \in 1..cap : s[i] = src.chars[i]
              /\ \A i \in (cap + 1)..(cap + 3) : s[i] = "."

(* ---- C26 ---- *)
\* C26: the text of a serialized node is the node's text cut at 100
\* characters and the value of its property the property's value cut at 200
\* characters: unchanged up to the cap, empty for null or the empty string,
\* otherwise the first cap characters followed by '...' (a value of 250
\* characters becomes 200 characters and the marker); and the tree builder
\* copies both into the tree node unchanged.
C26_TruncationAndCopy ==
    /\ pc \in {"input", "built", "collected"} =>
          LET flatNode == flatData.items[1] IN
          /\ CutAt(flatNode.text, astNode.text, 100)
          /\ CutAt(flatNode.properties[1].Value, astNode.value, 200)
          /\ (~astNode.value.null /\ Len(astNode.value.chars) = 250) =>
                /\ Len(flatNode.properties[1].Value) = 203
                /\ SubSeq(flatNode.properties[1].Value, 1, 200)
                       = SubSeq(astNode.value.chars, 1, 200)
    /\ pc \in {"built", "collected"} =>
          LET flatNode == flatData.items[1]
              treeNode == mappedData.node[flatNode.hashCode]
          IN /\ treeNode.text = flatNode.text
             /\ treeNode.properties = flatNode.properties

\* A node with a text of 101 characters and a property value of 250
\* characters has been serialized and built into a tree node whose text has
\* 103 characters.
C26_Witness ==
    /\ pc = "built"
    /\ Len(astNode.text.chars) = 101
    /\ Len(astNode.value.chars) = 250
    /\ Len(mappedData.node[1].text) = 103
    /\ mappedData.node[1].properties[1].Value[203] = "."

(* ------------------------- properties of the view ---------------------- *)

\* The analyses that have started and not finished
Outstanding == {i \in 1..Len(analyses) : analyses[i].at # "finished"}

\* The step is an analyze request: the refresh or the analyzeContent command
AnalyzeRequest ==
    \E editor \in Editors :
        RefreshCommand(editor) \/ AnalyzeContentCommand(editor)

\* The step installs the result of analysis i
Installs(i) ==
    /\ i \in 1..Len(analyses)
    /\ analyses[i].at = "parsing"
    /\ analyses'[i].at = "installed"

\* node is one of the nodes of the forest
IsNodeOf(node, forest) ==
    \E k \in 1..Len(NodesOf(forest)) : NodesOf(forest)[k] = node

(* ---- C21 ---- *)
\* C21: no two analyses are outstanding at once; while isAnalyzing is true a
\* refresh or analyzeContent request starts no analysis and no parser and
\* changes neither forest, index, selection nor flag; and an analysis starts
\* only in a step that finds the flag false and leaves it true, so that the
\* flag is true as long as an analysis is outstanding.
C21_NoConcurrentAnalyses ==
    /\ [](Cardinality(Outstanding) <= 1)
    /\ [](Outstanding # {} => isAnalyzing)
    /\ [][(isAnalyzing /\ AnalyzeRequest) =>
             UNCHANGED <<analyses, astData, nodeMap, currentNode,
                         currentFilePath, observed, isAnalyzing,
                         analyzingEvents>>
       ]_vars
    /\ [][Len(analyses') # Len(analyses) =>
             /\ Len(analyses') = Len(analyses) + 1
             /\ ~isAnalyzing
             /\ isAnalyzing'
       ]_vars

\* While the parser of the second analysis runs, with the forest of the
\* first one shown, a request has been refused.
C21_Witness ==
    /\ Len(analyses) = 2
    /\ analyses[2].at = "parsing"
    /\ isAnalyzing
    /\ lastMessage = "Analysis already in progress..."
    /\ Len(nodeMap) = 2

(* ---- C22 ---- *)
\* C22: the analyzing-changed notifications alternate true, false, and
\* isAnalyzing is what the last one said; the parser of an analysis is
\* invoked when true has been fired for it, and false is fired when it has
\* finished, whether it has produced a forest or failed; once every analysis
\* has finished isAnalyzing is false.
C22_AnalyzingEventsAlternate ==
    /\ [](\A k \in 1..Len(analyzingEvents) :
             analyzingEvents[k] = (k % 2 = 1))
    /\ [](isAnalyzing = (Len(analyzingEvents) % 2 = 1))
    /\ [](\A i \in 1..Len(analyses) :
             IF analyses[i].at = "finished"
             THEN Len(analyzingEvents) >= 2 * i
             ELSE Len(analyzingEvents) = 2 * i - 1)
    /\ [](Outstanding = {} => ~isAnalyzing)
    /\ [][\A i \in 1..Len(analyses) :
             (analyses[i].at = "started" /\ analyses'[i].at = "parsing") =>
                /\ Len(analyzingEvents) = 2 * i - 1
                /\ analyzingEvents' = analyzingEvents
       ]_vars

\* Two analyses have finished, the second one with a failure shown to the
\* user, and four notifications have been fired.
C22_Witness ==
    /\ Len(analyses) = 2
    /\ analyses[1].at = "finished" /\ analyses[2].at = "finished"
    /\ analyzingEvents = <<TRUE, FALSE, TRUE, FALSE>>
    /\ lastMessage = "Failed to analyze PowerShell AST"
    /\ ~isAnalyzing

(* ---- C23 ---- *)
\* C23: in every state between two handlers, where a query can run, the
\* index holds exactly the nodes of the current forest, each under its hash
\* code; and so did the index and the forest that the listeners of the last
\* selection-changed notification saw.
C23_IndexIsIndexOfForest ==
    /\ nodeMap = NodesOf(astData)
    /\ \A i, j \in 1..Len(nodeMap) :
          i # j => nodeMap[i].hashCode # nodeMap[j].hashCode
    /\ observed.nodeMap = NodesOf(observed.astData)

\* The second analysis has installed a forest of two nodes in place of the
\* forest of the first, a node of which an earlier query had returned.
C23_Witness ==
    /\ Len(analyses) = 2
    /\ analyses[2].at = "installed"
    /\ Len(nodeMap) = 2
    /\ nodeMap[1].of = 2
    /\ Len(observed.nodeMap) = 2
    /\ returned.nodes # <<>>
    /\ returned.nodes[1].of = 1

(* ---- C24 ---- *)
\* C24: from the start of an analysis until its result is installed the
\* previous forest and its index are gone: a query asked in between (the
\* children or the parent of a node, the node at a position) returns no
\* node, and there is no forest and no index to answer from.
C24_DiscardedWhenAnalysisStarts ==
    /\ returned.during => returned.nodes = <<>>
    /\ Analyzing => (astData = EmptyForest /\ nodeMap = <<>>)

(* ---- C25 ---- *)
\* C25: the step that installs the result of an analysis leaves as current
\* node the first root of the new forest, or null if it has no root, and
\* the clear command leaves null; the current node is never a node of a
\* forest that has been replaced: it is null or a node of the current one.
C25_SelectionFollowsForest ==
    /\ [](currentNode = NoNode \/ IsNodeOf(currentNode, astData))
    /\ [][\A i \in 1..Len(analyses) :
             Installs(i) =>
                /\ currentNode' =
                      (IF Len(astData'.rootNodes) > 0
                       THEN astData'.node[astData'.rootNodes[1]]
                       ELSE NoNode)
                /\ currentNode' # NoNode => currentNode'.of = i
                /\ observed'.node = currentNode'
       ]_vars
    /\ [][ClearCommand => currentNode' = NoNode]_vars

\* The second analysis has installed its forest in place of the first, a
\* node of which a query had returned, and the current node is the first
\* root of the new forest.
C25_Witness ==
    /\ Len(analyses) = 2
    /\ analyses[2].at = "installed"
    /\ currentNode # NoNode
    /\ currentNode.of = 2
    /\ currentNode.hashCode = astData.rootNodes[1]
    /\ returned.nodes # <<>>
    /\ returned.nodes[1].of = 1

(* ---- C31 ---- *)
\* The node under h names a parent that is no node of the map
MissingParent(heap, h) ==
    /\ heap[h].parentHashCode # Null
    /\ heap[h].parentHashCode \notin DOMAIN heap

\* C31: the builder returns for every input, a list or not, whatever its
\* parent references and hash codes: a result exists, its roots are
\* parentless nodes made of the input, every child is a node made of the
\* input, a value that is no list and the empty list give no roots, and a
\* node whose parent is not found is left out of the roots and of every
\* children sequence.
C31_AlwaysAListOfRoots ==
    /\ pc = "input" => BuildTreeFromFlatData(flatData).rootNodes \in Seq(Hashes)
    /\ pc = "built" =>
          LET heap == mappedData.node
              roots == mappedData.rootNodes
          IN
          /\ DOMAIN heap = HashesOf(Items)
          /\ \A r \in 1..Len(roots) :
                /\ roots[r] \in DOMAIN heap
                /\ heap[roots[r]].parentHashCode = Null
          /\ \A h \in DOMAIN heap : \A c \in 1..Len(heap[h].children) :
                heap[h].children[c] \in DOMAIN heap
          /\ (~IsArray(flatData) \/ Items = <<>>) => mappedData = EmptyForest
          /\ \A h \in DOMAIN heap :
                MissingParent(heap, h) =>
                    /\ Occurrences(roots, h) = 0
                    /\ OccurrencesElsewhere(heap, Null, h) = 0

\* A list of full length whose parent references form a cycle of two nodes,
\* with a third node whose parent is not in the list, has been built: no
\* roots.
C31_Witness ==
    /\ pc = "built"
    /\ IsArray(flatData)
    /\ Len(Items) = MaxNodes
    /\ UniqueHashes(Items)
    /\ Cardinality(Orphans(Items)) = 1
    /\ \E i, j \in 1..Len(Items) :
          /\ i # j
          /\ Items[i].parentHashCode = Items[j].hashCode
          /\ Items[j].parentHashCode = Items[i].hashCode
    /\ mappedData.rootNodes = <<>>
    /\ mappedData.node # <<>>

(* ---- C38 ---- *)
\* Following parentHashCode from the node under h reaches a root of the
\* forest within n steps.
RECURSIVE UnderARoot(_, _, _)
UnderARoot(forest, h, n) ==
    LET p == forest.node[h].parentHashCode IN
    \/ p = Null /\ Occurrences(forest.rootNodes, h) = 1
    \/ n > 0 /\ p \in DOMAIN forest.node /\ UnderARoot(forest, p, n - 1)

\* C38: in what the builder makes of any list, every tree node is in at most
\* one children sequence and at most once in it, and no root is in a
\* children sequence; the walk from the roots and the collection by levels
\* both end, the walk with no more nodes than there are, the collection
\* with no more levels than nodes walked; the walk visits no node twice and
\* only nodes under a root, so none of a cycle of parents.
C38_NoSharingNoCycle ==
    /\ pc = "built" =>
          Len(PreOrder(mappedData.rootNodes, mappedData.node))
              <= Cardinality(DOMAIN mappedData.node)
    /\ pc = "collected" =>
          Len(CollectNodesByLevel(mappedData.rootNodes, mappedData.node, 0).keys)
              <= Len(collected)
    /\ pc \in {"built", "collected", "expanded"} =>
          LET heap == mappedData.node
              roots == mappedData.rootNodes
          IN
          /\ \A k \in DOMAIN heap :
                /\ OccurrencesElsewhere(heap, Null, k) <= 1
                /\ \A h \in DOMAIN heap : Occurrences(heap[h].children, k) <= 1
          /\ \A r \in 1..Len(roots) :
                /\ OccurrencesElsewhere(heap, Null, roots[r]) = 0
                /\ Occurrences(roots, roots[r]) = 1
    /\ pc \in {"collected", "expanded"} =>
          /\ \A i, j \in 1..Len(collected) :
                i # j => collected[i] # collected[j]
          /\ \A i \in 1..Len(collected) :
                UnderARoot(mappedData, collected[i], Len(collected))

\* A list with a node that names itself as parent, a root and a child of the
\* root has been built and walked: the walk has the root and its child.
C38_Witness ==
    /\ pc = "collected"
    /\ Len(Items) = MaxNodes
    /\ \E i \in 1..Len(Items) :
          /\ Items[i].parentHashCode = Items[i].hashCode
          /\ Occurrences(mappedData.node[Items[i].hashCode].children,
                         Items[i].hashCode) = 1
    /\ Len(mappedData.rootNodes) = 1
    /\ Len(collected) = 2

(* ---- C33 ---- *)
\* The containing nodes of the smallest textLength
SmallestContaining ==
    {i \in Containing :
        \A j \in Containing : nodeMap[i].textLength <= nodeMap[j].textLength}

\* C33: when containing nodes tie on the smallest textLength the locator
\* returns the last of them in the index's iteration order; its result is a
\* function of the position and of the index's contents and order.
C33_LastOfTheSmallest ==
    (pc = "located" /\ Containing # {}) =>
        /\ foundNode \in SmallestContaining
        /\ \A i \in SmallestContaining : i <= foundNode
        /\ foundNode = LocateNode(nodeMap, selection)

\* Three nodes contain the position, the first and the third tie on the
\* smallest textLength, the second is longer, and the third has been
\* returned.
C33_Witness ==
    /\ pc = "located"
    /\ Len(nodeMap) = 3
    /\ Containing = {1, 2, 3}
    /\ SmallestContaining = {1, 3}
    /\ foundNode = 3

(* ---- C32 ---- *)
\* C32: the index holds, under its hash code, every node that the roots of
\* the forest reach and no other node; the parent that the index gives for
\* an indexed node with a parentHashCode is the node of the forest whose
\* children contain it; and getParent returns null exactly for the roots,
\* and for another node the node whose children contain it.
C32_IndexResolvesParents ==
    /\ [](\A k \in 1..Len(NodesOf(astData)) :
             MapGet(nodeMap, NodesOf(astData)[k].hashCode)
                 = <<NodesOf(astData)[k]>>)
    /\ [](\A i \in 1..Len(nodeMap) : IsNodeOf(nodeMap[i], astData))
    /\ [](\A i \in 1..Len(nodeMap) :
             nodeMap[i].parentHashCode # Null =>
                LET parent == MapGet(nodeMap, nodeMap[i].parentHashCode) IN
                /\ Len(parent) = 1
                /\ parent[1] = astData.node[nodeMap[i].parentHashCode]
                /\ Occurrences(parent[1].children, nodeMap[i].hashCode) = 1)
    /\ [][\A k \in 1..Len(NodesOf(astData)) :
             GetParent(k) =>
                LET element == NodesOf(astData)[k] IN
                /\ returned'.nodes = <<>>
                      <=> Occurrences(astData.rootNodes, element.hashCode) > 0
                /\ returned'.nodes # <<>> =>
                      /\ IsNodeOf(returned'.nodes[1], astData)
                      /\ Occurrences(returned'.nodes[1].children,
                                     element.hashCode) = 1
       ]_vars

\* The forest of an analysis has a root and a child of it, both in the
\* index, and a query has returned the root.
C32_Witness ==
    /\ Len(analyses) = 1
    /\ Len(astData.rootNodes) = 1
    /\ Len(nodeMap) = 2
    /\ nodeMap[2].parentHashCode = nodeMap[1].hashCode
    /\ ~returned.during
    /\ returned.nodes = <<nodeMap[1]>>

(* ---- C35 ---- *)
\* C35: the clear command leaves an empty forest, an empty index, no file
\* path and no current node; the listeners of selection-changed are told
\* null and see the emptied forest and index; isAnalyzing and the events of
\* the flag are as before.
C35_ClearEmptiesAllButTheFlag ==
    [][ClearCommand =>
          /\ astData' = EmptyForest
          /\ nodeMap' = <<>>
          /\ currentFilePath' = NoFile
          /\ currentNode' = NoNode
          /\ observed' = [node |-> NoNode, astData |-> EmptyForest,
                          nodeMap |-> <<>>]
          /\ UNCHANGED <<isAnalyzing, analyzingEvents, analyses>>
    ]_vars

\* The forest of an analysis, a node of which a query had returned, has
\* been cleared before the analysis has reset the flag.
C35_Witness ==
    /\ Len(analyses) = 1
    /\ analyses[1].at = "installed"
    /\ isAnalyzing
    /\ astData = EmptyForest
    /\ nodeMap = <<>>
    /\ currentFilePath = NoFile
    /\ currentNode = NoNode
    /\ observed.node = NoNode
    /\ returned.nodes # <<>>
    /\ returned.nodes[1].of = 1

(* ---- C39 ---- *)
\* The parser runs of a failed analysis: the process does not start, exits
\* with an error, prints nothing or white space, prints what is not JSON,
\* or prints the document of an error
FailedRuns ==
    {[error |-> TRUE, code |-> 0, stdout |-> <<>>],
     [error |-> FALSE, code |-> 1, stdout |-> <<ErrorDocument("m1"), Blank>>],
     [error |-> FALSE, code |-> 0, stdout |-> <<>>],
     [error |-> FALSE, code |-> 0, stdout |-> <<Blank>>],
     [error |-> FALSE, code |-> 0, stdout |-> <<NotJson, Blank>>],
     [error |-> FALSE, code |-> 0, stdout |-> <<ErrorDocument("m1"), Blank>>]}

\* C39: an analysis that fails, at whatever stage, yields the empty list,
\* and the step that installs its result leaves an empty forest, an empty
\* index, no current node and the file of the analyzed document, whatever
\* was shown before; the analysis then ends with isAnalyzing false.
C39_FailureReplacesThePreviousResult ==
    /\ [][\A i \in 1..Len(analyses) : \A run \in FailedRuns :
             InstallResult(i, run) =>
                /\ AnalysisOutcome(run).value = EmptyForest
                /\ astData' = EmptyForest
                /\ nodeMap' = <<>>
                /\ currentNode' = NoNode
                /\ observed'.node = NoNode
                /\ currentFilePath' = analyses[i].file
                /\ lastMessage' = "Failed to analyze PowerShell AST"
       ]_vars
    /\ [][\A i \in 1..Len(analyses) :
             FinishAnalysis(i) => (isAnalyzing /\ ~isAnalyzing')
       ]_vars
    /\ [](\A i \in 1..Len(analyses) :
             analyses[i].at = "installed" => isAnalyzing)

\* The first analysis has shown a forest, a node of which a query has
\* returned; the second, of another document, has failed and has ended: no
\* forest, no index, no current node, the file of the second document.
C39_Witness ==
    /\ Len(analyses) = 2
    /\ analyses[2].at = "finished"
    /\ analyses[1].file # analyses[2].file
    /\ returned.nodes # <<>>
    /\ returned.nodes[1].of = 1
    /\ lastMessage = "Failed to analyze PowerShell AST"
    /\ astData = EmptyForest
    /\ nodeMap = <<>>
    /\ currentNode = NoNode
    /\ currentFilePath = analyses[2].file
    /\ ~isAnalyzing

(* ---- C36 ---- *)
\* The queue of the step once invoke, if the step is one that pushes, has
\* pushed its callbacks
QueueAfterPush ==
    IF Len(fut') > Len(fut) /\ fut'[Len(fut')].enq
    THEN Append(pendingCallbacks, Len(fut'))
    ELSE pendingCallbacks

\* Future f, whose callbacks invoke pushed, is settled in the step
SettledInStep(f) ==
    /\ fut'[f].enq
    /\ fut'[f].st # "pending"
    /\ f \in 1..Len(fut) => fut[f].st = "pending"

\* C36: the queue holds exactly the futures that invoke enqueued and that
\* are not settled, in the order of the calls; a step settles an enqueued
\* future only by removing its callback from the head of the queue, settles
\* every callback it removes, and changes no settled future: none is
\* settled twice.
C36_QueueIsTheUnsettledFutures ==
    /\ []({pendingCallbacks[i] : i \in 1..Len(pendingCallbacks)}
             = {f \in Futures : fut[f].enq /\ ~IsSettled(f)})
    /\ [](\A i, j \in 1..Len(pendingCallbacks) :
             i < j => pendingCallbacks[i] < pendingCallbacks[j])
    /\ [](\A i, j \in 1..Len(settledOrder) :
             i # j => settledOrder[i] # settledOrder[j])
    /\ [][/\ \A f \in 1..Len(fut') :
                SettledInStep(f) =>
                   /\ QueueAfterPush # <<>>
                   /\ Head(QueueAfterPush) = f
                   /\ pendingCallbacks' = Tail(QueueAfterPush)
          /\ pendingCallbacks' # QueueAfterPush =>
                /\ QueueAfterPush # <<>>
                /\ pendingCallbacks' = Tail(QueueAfterPush)
                /\ SettledInStep(Head(QueueAfterPush))
          /\ \A f \in 1..Len(fut) : IsSettled(f) => fut'[f] = fut[f]
       ]_vars

\* A second invoke, whose write threw, has removed and rejected the oldest
\* callback; the queue holds the second future, not yet settled.
C36_Witness ==
    /\ Len(fut) = 2
    /\ pendingCallbacks = <<2>>
    /\ fut[1].enq
    /\ fut[1].st = "rejected"
    /\ fut[1].why = "write"
    /\ fut[2].enq
    /\ fut[2].st = "pending"

(* ---- C37 ---- *)
\* Every invoke so far was called with no callback pending: each after the
\* future before it had settled
Sequential == \A f \in Futures : fut[f].ahead = 0

\* The text before the first sentinel of text
UpToFirstSentinel(text) == SubSeq(text, 1, IndexOf(text, Sentinel) - 1)

RECURSIVE Depth(_, _)
Depth(forest, h) ==
    IF forest.node[h].parentHashCode = Null
    THEN 0
    ELSE 1 + Depth(forest, forest.node[h].parentHashCode)

\* The places of node h in the buckets of m: level and position
Places(m, h) ==
    UNION {{<<k, i>> : i \in {j \in 1..Len(m.val[k]) : m.val[k][j] = h}} :
              k \in DOMAIN m.val}

\* The nodes that the walk from the roots has found
Reached == {collected[i] : i \in 1..Len(collected)}

\* C34: collectNodesByLevel puts every node that the roots reach into one
\* bucket, once, the bucket of the node's depth, and nothing else into any
\* bucket: the buckets are disjoint and their union is the forest; a forest
\* without roots gives no bucket, and nothing is revealed.  The nodes
\* revealed are the reached nodes with children, each once.
C34_BucketsPartitionByDepth ==
    pc = "expanded" =>
        /\ \A h \in Reached :
              /\ Cardinality(Places(nodesByLevel, h)) = 1
              /\ \A place \in Places(nodesByLevel, h) :
                    place[1] = Depth(mappedData, h)
        /\ \A k \in DOMAIN nodesByLevel.val :
              \A i \in 1..Len(nodesByLevel.val[k]) :
                 nodesByLevel.val[k][i] \in Reached
        /\ {nodesByLevel.keys[i] : i \in 1..Len(nodesByLevel.keys)}
              = DOMAIN nodesByLevel.val
        /\ mappedData.rootNodes = <<>> =>
              (nodesByLevel = EmptyMap /\ revealed = <<>>)
        /\ \A h \in Reached :
              Occurrences(revealed, h)
                  = (IF Len(mappedData.node[h].children) > 0 THEN 1 ELSE 0)
        /\ \A i \in 1..Len(revealed) : revealed[i] \in Reached

\* A forest of a root, its child and its grandchild has been expanded:
\* three buckets of one node each, the root and its child revealed.
C34_Witness ==
    /\ pc = "expanded"
    /\ Len(collected) = MaxNodes
    /\ nodesByLevel.keys = <<0, 1, 2>>
    /\ \A k \in 0..2 : Len(nodesByLevel.val[k]) = 1
    /\ revealed = <<mappedData.rootNodes[1], nodesByLevel.val[1][1]>>

=============================================================================
